---- MODULE Spec2Model ----
(***************************************************************************)
(* Model of the reverse-sync core of bidirectional-spec-to-postman:        *)
(*   deepDiff / ChangeDetector   (src/src/test-generator.js, 495-808)      *)
(*   SpecMerge                   (src/src/cli.js, 1002-1140)               *)
(*                                                                         *)
(* JavaScript strings that the code scans (property keys, joined paths)    *)
(* are modelled as Texts: sequences of tokens.  A token is the separator   *)
(* ".", the slash "/", a decimal digit "0".."9", or a word (a run of the   *)
(* other characters, kept whole).  The code only ever looks at "." and "/" *)
(* character by character, tests whole parts for being canonical decimal   *)
(* numbers, and searches for substrings that contain neither "." nor "/"   *)
(* nor digits, so the token view loses nothing the code can observe.       *)
(* The words of the model exclude the names of inherited JavaScript        *)
(* properties (length, constructor, toString, __proto__, ...).             *)
(***************************************************************************)
EXTENDS Integers, Sequences, FiniteSets, TLC

VARIABLES
    pc,            \* position of the run
    strictMode,    \* ChangeDetector.options.strictMode
    conflictStrategy, \* SpecMerge.options.conflictStrategy
    baseSpec,      \* detectChanges: baseSpec
    currentSpec,   \* detectChanges: currentSpec / mergeSpecs: localSpec
    remoteSpec,    \* detectChanges: remoteSpec
    changes,       \* the object detectChanges returned
    allowed,       \* mergeSpecs: allowedChanges
    idx,           \* mergeSpecs: number of allowedChanges already processed
    store,         \* the objects mergeSpecs can write: store[1] is merged,
                   \* store[i + 1] the object held in allowed[i].newValue
    applied,       \* mergeSpecs: appliedChanges (as indices into allowed)
    skipped,       \* mergeSpecs: skippedChanges (index and reason)
    edited,        \* how many edits the repo and the collection have seen
    segs,          \* a path array as deepDiff builds it
    pathStr,       \* its join('.')
    parts,         \* parsePath(pathStr)
    diff,          \* the edits deepDiff returned
    classified,    \* what classifyChange returned
    matchPattern,  \* pathMatchesPattern: pattern
    matched,       \* what pathMatchesPattern returned
    collection,    \* reverseSync: the request items of collection.collection
    options,       \* reverseSync: options (dryRun, outputPath, noBackup)
    files,         \* the files reverseSync has written, in order
    status,        \* reverseSync: status of the value returned
    maxRetries,    \* SpecHubClient.maxRetries
    attempt,       \* requestWithRetry: attempt
    lastError,     \* requestWithRetry: lastError
    delay,         \* requestWithRetry: delay of the sleep under way
    requests       \* how many times request has been called

\* The state of a pathMatchesPattern call
matchVars == <<matchPattern, matched>>

\* The state of a reverseSync run
syncVars == <<collection, options, files, status>>

\* The state of a requestWithRetry call
retryVars == <<maxRetries, attempt, lastError, delay, requests>>

vars == <<pc, strictMode, conflictStrategy, baseSpec, currentSpec, remoteSpec,
          changes, allowed, idx, store, applied, skipped, edited, segs, pathStr, parts,
          diff, classified,
          matchVars,
          syncVars,
          retryVars>>

----------------------------------------------------------------------------
(* Texts *)

Digits == <<"0", "1", "2", "3", "4", "5", "6", "7", "8", "9">>

DOT == "."

SLASH == "/"

\* A function on 1..n as the sequence it is
AsSeq(f) == f \o <<>>

IsDigit(tok) == \E d \in 1..10 : Digits[d] = tok

DigitVal(tok) == (CHOOSE d \in 1..10 : Digits[d] = tok) - 1

\* String(n) for a non-negative integer n
RECURSIVE NumText(_)
NumText(n) ==
    IF n < 10 THEN <<Digits[n + 1]>>
    ELSE NumText(n \div 10) \o <<Digits[(n % 10) + 1]>>

RECURSIVE TextNum(_)
TextNum(txt) ==
    IF txt = <<>> THEN 0
    ELSE 10 * TextNum(SubSeq(txt, 1, Len(txt) - 1)) + DigitVal(txt[Len(txt)])

\* p is the canonical decimal text of a non-negative integer:
\* !isNaN(parseInt(p, 10)) && String(parseInt(p, 10)) === p
IsNumericText(p) ==
    /\ p # <<>>
    /\ \A i \in 1..Len(p) : IsDigit(p[i])
    /\ (Len(p) > 1 => p[1] # "0")

----------------------------------------------------------------------------
(* JavaScript values.  t is the type tag; v the payload of a primitive;    *)
(* ks/es the own enumerable string-keyed properties of an object in        *)
(* enumeration order (for an array: the non-index properties); el the      *)
(* elements of an array, a hole being Undef.                               *)

Node(tag, payload, keys, vals, elems) ==
    [t |-> tag, v |-> payload, r |-> 0, ks |-> keys, es |-> vals, el |-> elems]

Undef == Node("undef", "", <<>>, <<>>, <<>>)

Null == Node("null", "", <<>>, <<>>, <<>>)

Str(s) == Node("str", s, <<>>, <<>>, <<>>)

Obj(keys, vals) == Node("obj", "", keys, vals, <<>>)

Arr(elems) == Node("arr", "", <<>>, <<>>, elems)

\* The object store[i], held by reference: the one object is reachable both
\* from the place that holds the reference and from its owner
Ref(i) == [t |-> "ref", v |-> "", r |-> i, ks |-> <<>>, es |-> <<>>, el |-> <<>>]

\* typeof x === 'object' && x !== null
IsObject(n) == n.t \in {"obj", "arr"}

\* The characters of the string values of the model (a value not listed is a
\* one-character string)
StrChars(s) ==
    CASE s = "v1" -> <<"v", "1">>
      [] s = "old" -> <<"o", "l", "d">>
      [] s = "local-edit" -> <<"l", "o", "c", "a", "l", "-", "e", "d", "i", "t">>
      [] s = "remote-doc" -> <<"r", "e", "m", "o", "t", "e", "-", "d", "o", "c">>
      [] OTHER -> <<s>>

KeyPos(n, key) == CHOOSE i \in 1..Len(n.ks) : n.ks[i] = key

HasKey(n, key) == \E i \in 1..Len(n.ks) : n.ks[i] = key

\* n[key] for a value n that is neither null nor undefined (own properties
\* only; a number key reads the same property as its decimal text)
GetProp(n, key) ==
    CASE n.t = "arr" /\ IsNumericText(key) ->
            IF TextNum(key) < Len(n.el) THEN n.el[TextNum(key) + 1] ELSE Undef
      [] n.t \in {"obj", "arr"} ->
            IF HasKey(n, key) THEN n.es[KeyPos(n, key)] ELSE Undef
      [] n.t = "str" /\ IsNumericText(key) ->
            IF TextNum(key) < Len(StrChars(n.v))
            THEN Str(StrChars(n.v)[TextNum(key) + 1]) ELSE Undef
      [] OTHER -> Undef

\* Own property order of an ordinary object: integer keys ascending, then the
\* other keys in insertion order
InsertPos(keys, key) ==
    IF IsNumericText(key)
    THEN Cardinality({i \in 1..Len(keys) :
                        IsNumericText(keys[i]) /\ TextNum(keys[i]) < TextNum(key)}) + 1
    ELSE Len(keys) + 1

InsertAt(s, i, e) == SubSeq(s, 1, i - 1) \o <<e>> \o SubSeq(s, i, Len(s))

RemoveAt(s, i) == SubSeq(s, 1, i - 1) \o SubSeq(s, i + 1, Len(s))

\* n[key] = val for an object or array n
PutProp(n, key, val) ==
    CASE n.t = "arr" /\ IsNumericText(key) ->
            LET i == TextNum(key) IN
            [n EXCEPT !.el = AsSeq(
                [j \in 1..(IF i < Len(n.el) THEN Len(n.el) ELSE i + 1) |->
                    IF j = i + 1 THEN val
                    ELSE IF j <= Len(n.el) THEN n.el[j] ELSE Undef])]
      [] HasKey(n, key) -> [n EXCEPT !.es[KeyPos(n, key)] = val]
      [] OTHER ->
            [n EXCEPT !.ks = InsertAt(n.ks, InsertPos(n.ks, key), key),
                      !.es = InsertAt(n.es, InsertPos(n.ks, key), val)]

\* delete n[key] for an object or array n (an array keeps its length: the
\* element becomes a hole)
DeleteProp(n, key) ==
    CASE n.t = "arr" /\ IsNumericText(key) ->
            IF TextNum(key) < Len(n.el)
            THEN [n EXCEPT !.el[TextNum(key) + 1] = Undef] ELSE n
      [] HasKey(n, key) ->
            [n EXCEPT !.ks = RemoveAt(n.ks, KeyPos(n, key)),
                      !.es = RemoveAt(n.es, KeyPos(n, key))]
      [] OTHER -> n

----------------------------------------------------------------------------
(* deepDiff *)

\* An element of a deepDiff path: an array index (a number) or an object key
IndexSeg(i) == [k |-> "Index", txt |-> NumText(i)]

KeySeg(key) == [k |-> "Key", txt |-> key]

Max(a, b) == IF a > b THEN a ELSE b

\* [...Object.keys(base), ...Object.keys(compare)] as a Set: the keys of base,
\* then the keys only compare has
AllKeys(base, compare) ==
    base.ks \o SelectSeq(compare.ks, LAMBDA key : ~HasKey(base, key))

\* base === compare for two primitives.  Two containers are === only when they
\* are one object; the model always descends into containers, which is what
\* the code does for every pair of distinct objects.
StrictEqualPrimitives(base, compare) ==
    /\ ~IsObject(base)
    /\ ~IsObject(compare)
    /\ base.t = compare.t
    /\ base.v = compare.v

RECURSIVE DeepDiff(_, _, _), DiffElems(_, _, _, _, _), DiffKeys(_, _, _, _)

\* deepDiff that compares containers by identity instead of descending:
\* any two distinct objects are reported as an edit
DeepDiffByIdentity(base, compare, path) ==
    IF StrictEqualPrimitives(base, compare) THEN <<>>
    ELSE <<[kind |-> IF base.t = "undef" THEN "N"
                     ELSE IF compare.t = "undef" THEN "D" ELSE "E",
            path |-> path, lhs |-> base, rhs |-> compare]>>

\* deepDiff that reports a removed value as an edit of kind 'E'
DeepDiffWithoutDelete(base, compare, path) ==
    IF StrictEqualPrimitives(base, compare) THEN <<>>
    ELSE IF ~IsObject(base) \/ ~IsObject(compare)
    THEN <<[kind |-> IF base.t = "undef" THEN "N" ELSE "E",
            path |-> path, lhs |-> base, rhs |-> compare]>>
    ELSE IF base.t = "arr" \/ compare.t = "arr"
    THEN IF base.t # "arr" \/ compare.t # "arr"
         THEN <<[kind |-> "E", path |-> path, lhs |-> base, rhs |-> compare]>>
         ELSE DiffElems(base, compare, path, 0, Max(Len(base.el), Len(compare.el)))
    ELSE DiffKeys(base, compare, path, AllKeys(base, compare))

\* deepDiff walking the keys of base only
DeepDiffBaseKeysOnly(base, compare, path) ==
    IF StrictEqualPrimitives(base, compare) THEN <<>>
    ELSE IF ~IsObject(base) \/ ~IsObject(compare)
    THEN <<[kind |-> IF base.t = "undef" THEN "N"
                     ELSE IF compare.t = "undef" THEN "D" ELSE "E",
            path |-> path, lhs |-> base, rhs |-> compare]>>
    ELSE IF base.t = "arr" \/ compare.t = "arr"
    THEN IF base.t # "arr" \/ compare.t # "arr"
         THEN <<[kind |-> "E", path |-> path, lhs |-> base, rhs |-> compare]>>
         ELSE DiffElems(base, compare, path, 0, Max(Len(base.el), Len(compare.el)))
    ELSE DiffKeys(base, compare, path, base.ks)

\* deepDiff walking the indices of base only
DeepDiffBaseLength(base, compare, path) ==
    IF StrictEqualPrimitives(base, compare) THEN <<>>
    ELSE IF ~IsObject(base) \/ ~IsObject(compare)
    THEN <<[kind |-> IF base.t = "undef" THEN "N"
                     ELSE IF compare.t = "undef" THEN "D" ELSE "E",
            path |-> path, lhs |-> base, rhs |-> compare]>>
    ELSE IF base.t = "arr" \/ compare.t = "arr"
    THEN IF base.t # "arr" \/ compare.t # "arr"
         THEN <<[kind |-> "E", path |-> path, lhs |-> base, rhs |-> compare]>>
         ELSE DiffElems(base, compare, path, 0, Len(base.el))
    ELSE DiffKeys(base, compare, path, AllKeys(base, compare))

DeepDiff(base, compare, path) ==
    IF StrictEqualPrimitives(base, compare) THEN <<>>
    ELSE IF ~IsObject(base) \/ ~IsObject(compare)
    THEN <<[kind |-> IF base.t = "undef" THEN "N"
                     ELSE IF compare.t = "undef" THEN "D" ELSE "E",
            path |-> path, lhs |-> base, rhs |-> compare]>>
    ELSE IF base.t = "arr" \/ compare.t = "arr"
    THEN IF base.t # "arr" \/ compare.t # "arr"
         THEN <<[kind |-> "E", path |-> path, lhs |-> base, rhs |-> compare]>>
         ELSE DiffElems(base, compare, path, 0, Max(Len(base.el), Len(compare.el)))
    ELSE DiffKeys(base, compare, path, AllKeys(base, compare))

\* for (let i = lo; i < hi; i++) changes.push(...deepDiff(base[i], compare[i], [...path, i]))
\* (the range is halved so that long arrays do not nest deeply)
DiffElems(base, compare, path, lo, hi) ==
    IF lo >= hi THEN <<>>
    ELSE IF hi = lo + 1
    THEN DeepDiff(GetProp(base, NumText(lo)), GetProp(compare, NumText(lo)),
                  Append(path, IndexSeg(lo)))
    ELSE DiffElems(base, compare, path, lo, (lo + hi) \div 2)
         \o DiffElems(base, compare, path, (lo + hi) \div 2, hi)

\* for (const key of allKeys) changes.push(...deepDiff(base[key], compare[key], [...path, key]))
DiffKeys(base, compare, path, keys) ==
    IF keys = <<>> THEN <<>>
    ELSE DeepDiff(GetProp(base, Head(keys)), GetProp(compare, Head(keys)),
                  Append(path, KeySeg(Head(keys))))
         \o DiffKeys(base, compare, path, Tail(keys))

\* path.join('.')
RECURSIVE JoinPath(_)
JoinPath(path) ==
    IF path = <<>> THEN <<>>
    ELSE IF Len(path) = 1 THEN path[1].txt
    ELSE path[1].txt \o <<DOT>> \o JoinPath(Tail(path))

\* str.split('.')
RECURSIVE SplitDots(_)
SplitDots(txt) ==
    IF \A i \in 1..Len(txt) : txt[i] # DOT THEN <<txt>>
    ELSE LET d == CHOOSE i \in 1..Len(txt) :
                      txt[i] = DOT /\ \A j \in 1..(i - 1) : txt[j] # DOT
         IN  <<SubSeq(txt, 1, d - 1)>> \o SplitDots(SubSeq(txt, d + 1, Len(txt)))

----------------------------------------------------------------------------
(* ChangeDetector *)

SPEC_TO_COLLECTION == "spec-to-collection"

BIDIRECTIONAL == "bidirectional"

COLLECTION_ONLY == "collection-only"

STAR == "*"

SPEC_SOURCE_OF_TRUTH == <<
    <<"openapi">>,
    <<"paths">>,
    <<"components", DOT, "schemas">>,
    <<"components", DOT, "securitySchemes">>,
    <<"components", DOT, "parameters">>,
    <<"components", DOT, "requestBodies">>,
    <<"components", DOT, "responses">>,
    <<"components", DOT, "headers">>,
    <<"servers">>,
    <<"security">> >>

BIDIRECTIONAL_FIELDS == <<
    <<"info", DOT, "description">>,
    <<"info", DOT, "contact">>,
    <<"info", DOT, "license">>,
    <<"info", DOT, "termsOfService">>,
    <<"externalDocs">>,
    <<"tags", DOT, STAR, DOT, "description">>,
    <<"tags", DOT, STAR, DOT, "externalDocs">>,
    <<"paths", DOT, STAR, DOT, STAR, DOT, "summary">>,
    <<"paths", DOT, STAR, DOT, STAR, DOT, "description">>,
    <<"paths", DOT, STAR, DOT, STAR, DOT, "externalDocs">>,
    <<"paths", DOT, STAR, DOT, STAR, DOT, "parameters", DOT, STAR, DOT, "description">>,
    <<"paths", DOT, STAR, DOT, STAR, DOT, "parameters", DOT, STAR, DOT, "example">>,
    <<"paths", DOT, STAR, DOT, STAR, DOT, "parameters", DOT, STAR, DOT, "examples">>,
    <<"paths", DOT, STAR, DOT, STAR, DOT, "requestBody", DOT, "description">>,
    <<"paths", DOT, STAR, DOT, STAR, DOT, "requestBody", DOT, "content", DOT, STAR, DOT, "example">>,
    <<"paths", DOT, STAR, DOT, STAR, DOT, "requestBody", DOT, "content", DOT, STAR, DOT, "examples">>,
    <<"paths", DOT, STAR, DOT, STAR, DOT, "responses", DOT, STAR, DOT, "description">>,
    <<"paths", DOT, STAR, DOT, STAR, DOT, "responses", DOT, STAR, DOT, "content", DOT, STAR, DOT, "example">>,
    <<"paths", DOT, STAR, DOT, STAR, DOT, "responses", DOT, STAR, DOT, "content", DOT, STAR, DOT, "examples">>,
    <<"components", DOT, "schemas", DOT, STAR, DOT, "description">>,
    <<"components", DOT, "schemas", DOT, STAR, DOT, "properties", DOT, STAR, DOT, "description">>,
    <<"components", DOT, "schemas", DOT, STAR, DOT, "properties", DOT, STAR, DOT, "example">> >>

\* new RegExp('^' + patternPart.replace(/\*/g, '.*') + '$').test(part), on
\* tokens: a "*" stands for any run of tokens
RECURSIVE GlobMatch(_, _)
GlobMatch(pat, txt) ==
    IF pat = <<>> THEN txt = <<>>
    ELSE IF Head(pat) = STAR
    THEN \E n \in 0..Len(txt) : GlobMatch(Tail(pat), SubSeq(txt, n + 1, Len(txt)))
    ELSE txt # <<>> /\ Head(txt) = Head(pat) /\ GlobMatch(Tail(pat), Tail(txt))

RECURSIVE MatchFrom(_, _, _, _)
MatchFrom(pathParts, patternParts, pi, pti) ==
    IF pi <= Len(pathParts) /\ pti <= Len(patternParts)
    THEN LET patternPart == patternParts[pti] IN
         IF patternPart = <<STAR>>
         THEN MatchFrom(pathParts, patternParts, pi + 1, pti + 1)
         ELSE IF \E i \in 1..Len(patternPart) : patternPart[i] = STAR
         THEN IF GlobMatch(patternPart, pathParts[pi])
              THEN MatchFrom(pathParts, patternParts, pi + 1, pti + 1)
              ELSE FALSE
         ELSE IF pathParts[pi] = patternPart
         THEN MatchFrom(pathParts, patternParts, pi + 1, pti + 1)
         ELSE FALSE
    ELSE pti = Len(patternParts) + 1

\* pathMatchesPattern that asks for the whole path to be consumed, not only
\* the whole pattern
pathMatchesPatternExact(path, pattern) ==
    /\ Len(SplitDots(path)) = Len(SplitDots(pattern))
    /\ MatchFrom(SplitDots(path), SplitDots(pattern), 1, 1)

pathMatchesPattern(path, pattern) ==
    MatchFrom(SplitDots(path), SplitDots(pattern), 1, 1)

\* /\.word$/
EndsWithField(txt, word) ==
    Len(txt) >= 2 /\ txt[Len(txt) - 1] = DOT /\ txt[Len(txt)] = word

\* /\.word($|\.)/
HasField(txt, word) ==
    \E i \in 1..(Len(txt) - 1) :
        /\ txt[i] = DOT
        /\ txt[i + 1] = word
        /\ (i + 1 = Len(txt) \/ txt[i + 2] = DOT)

\* isEnrichmentWithinStructure without the /\.description$/ pattern
isEnrichmentWithoutDescription(path) ==
    \/ EndsWithField(path, "summary")
    \/ HasField(path, "example")
    \/ HasField(path, "examples")
    \/ HasField(path, "externalDocs")

\* isEnrichmentWithinStructure with every pattern anchored at the end
isEnrichmentFinalOnly(path) ==
    \/ EndsWithField(path, "description")
    \/ EndsWithField(path, "summary")
    \/ EndsWithField(path, "example")
    \/ EndsWithField(path, "examples")
    \/ EndsWithField(path, "externalDocs")

isEnrichmentWithinStructure(path) ==
    \/ EndsWithField(path, "description")
    \/ EndsWithField(path, "summary")
    \/ HasField(path, "example")
    \/ HasField(path, "examples")
    \/ HasField(path, "externalDocs")

\* The words of the model that contain 'x-postman', 'x-tests', 'event' or
\* 'script' ("description" contains "script")
ArtifactWords == {"description", "x-postman-tests", "x-tests", "events", "prescript"}

\* pathStr.includes('x-postman') || ... || pathStr.includes('script')
IncludesArtifact(path) == \E i \in 1..Len(path) : path[i] \in ArtifactWords

FirstMatch(path, patterns) ==
    CHOOSE i \in 1..Len(patterns) :
        /\ pathMatchesPattern(path, patterns[i])
        /\ \A j \in 1..(i - 1) : ~pathMatchesPattern(path, patterns[j])

MatchesAny(path, patterns) ==
    \E i \in 1..Len(patterns) : pathMatchesPattern(path, patterns[i])

\* classifyChange that looks for test or script content before the
\* bidirectional fields
classifyChangeArtifactFirst(path, strict) ==
    IF MatchesAny(path, SPEC_SOURCE_OF_TRUTH)
    THEN IF isEnrichmentWithinStructure(path)
         THEN [direction |-> BIDIRECTIONAL,
               reason |-> <<"Enrichment within structure: ">> \o path]
         ELSE [direction |-> SPEC_TO_COLLECTION,
               reason |-> <<"Structural element: ">>
                          \o SPEC_SOURCE_OF_TRUTH[FirstMatch(path, SPEC_SOURCE_OF_TRUTH)]]
    ELSE IF IncludesArtifact(path)
    THEN [direction |-> COLLECTION_ONLY, reason |-> <<"Test or script content">>]
    ELSE IF MatchesAny(path, BIDIRECTIONAL_FIELDS)
    THEN [direction |-> BIDIRECTIONAL,
          reason |-> <<"Enrichment field: ">>
                     \o BIDIRECTIONAL_FIELDS[FirstMatch(path, BIDIRECTIONAL_FIELDS)]]
    ELSE IF strict
    THEN [direction |-> SPEC_TO_COLLECTION,
          reason |-> <<"Unclassified - defaulting to spec-only (strict mode)">>]
    ELSE [direction |-> BIDIRECTIONAL,
          reason |-> <<"Unclassified - allowing in non-strict mode">>]

classifyChange(path, strict) ==
    IF MatchesAny(path, SPEC_SOURCE_OF_TRUTH)
    THEN IF isEnrichmentWithinStructure(path)
         THEN [direction |-> BIDIRECTIONAL,
               reason |-> <<"Enrichment within structure: ">> \o path]
         ELSE [direction |-> SPEC_TO_COLLECTION,
               reason |-> <<"Structural element: ">>
                          \o SPEC_SOURCE_OF_TRUTH[FirstMatch(path, SPEC_SOURCE_OF_TRUTH)]]
    ELSE IF MatchesAny(path, BIDIRECTIONAL_FIELDS)
    THEN [direction |-> BIDIRECTIONAL,
          reason |-> <<"Enrichment field: ">>
                     \o BIDIRECTIONAL_FIELDS[FirstMatch(path, BIDIRECTIONAL_FIELDS)]]
    ELSE IF IncludesArtifact(path)
    THEN [direction |-> COLLECTION_ONLY, reason |-> <<"Test or script content">>]
    ELSE IF strict
    THEN [direction |-> SPEC_TO_COLLECTION,
          reason |-> <<"Unclassified - defaulting to spec-only (strict mode)">>]
    ELSE [direction |-> BIDIRECTIONAL,
          reason |-> <<"Unclassified - allowing in non-strict mode">>]

EmptyChanges == [safeToSync |-> <<>>, needsReview |-> <<>>, blocked |-> <<>>, tests |-> <<>>]

\* new Set(localDiff.map(change => change.path.join('.')))
LocalChangePaths(localDiff) == {JoinPath(localDiff[i].path) : i \in 1..Len(localDiff)}

\* A classification in which a conflict turns the change into a structural one
ClassifiedChangeConflictBlocks(change, localChangePaths, strict) ==
    LET path == JoinPath(change.path)
        classification == classifyChange(path, strict)
    IN  [path |-> path,
         kind |-> change.kind,
         oldValue |-> change.lhs,
         newValue |-> change.rhs,
         direction |-> IF path \in localChangePaths
                       THEN SPEC_TO_COLLECTION ELSE classification.direction,
         reason |-> classification.reason,
         hasConflict |-> path \in localChangePaths]

ClassifiedChange(change, localChangePaths, strict) ==
    LET path == JoinPath(change.path)
        classification == classifyChange(path, strict)
    IN  [path |-> path,
         kind |-> change.kind,
         oldValue |-> change.lhs,
         newValue |-> change.rhs,
         direction |-> classification.direction,
         reason |-> classification.reason,
         hasConflict |-> path \in localChangePaths]

\* A switch that does not look at hasConflict
RouteIgnoringConflict(acc, c) ==
    CASE c.direction = BIDIRECTIONAL -> [acc EXCEPT !.safeToSync = Append(@, c)]
      [] c.direction = COLLECTION_ONLY -> [acc EXCEPT !.tests = Append(@, c)]
      [] OTHER -> [acc EXCEPT !.blocked = Append(@, c)]

\* The switch on classification.direction
Route(acc, c) ==
    CASE c.direction = BIDIRECTIONAL ->
            IF c.hasConflict
            THEN [acc EXCEPT !.needsReview = Append(@, c)]
            ELSE [acc EXCEPT !.safeToSync = Append(@, c)]
      [] c.direction = COLLECTION_ONLY -> [acc EXCEPT !.tests = Append(@, c)]
      [] OTHER -> [acc EXCEPT !.blocked = Append(@, c)]

RECURSIVE RouteAll(_, _, _, _, _)
RouteAll(acc, remoteDiff, i, localChangePaths, strict) ==
    IF i > Len(remoteDiff) THEN acc
    ELSE RouteAll(Route(acc, ClassifiedChange(remoteDiff[i], localChangePaths, strict)),
                  remoteDiff, i + 1, localChangePaths, strict)

detectChanges(base, current, remote, strict) ==
    LET remoteDiff == DeepDiff(base, remote, <<>>)
        localDiff == DeepDiff(base, current, <<>>)
    IN  RouteAll(EmptyChanges, remoteDiff, 1, LocalChangePaths(localDiff), strict)

----------------------------------------------------------------------------
(* SpecMerge *)

\* The scanner of parsePath: one step per character (token)
ScanStep(st, char) ==
    IF char = SLASH /\ ~st.inPath
    THEN [parts |-> IF st.current # <<>> THEN Append(st.parts, st.current) ELSE st.parts,
          current |-> <<SLASH>>, inPath |-> TRUE]
    ELSE IF char = DOT /\ ~st.inPath
    THEN [parts |-> IF st.current # <<>> THEN Append(st.parts, st.current) ELSE st.parts,
          current |-> <<>>, inPath |-> FALSE]
    ELSE IF char = DOT /\ st.inPath
    THEN [parts |-> Append(st.parts, st.current), current |-> <<>>, inPath |-> FALSE]
    ELSE [st EXCEPT !.current = Append(@, char)]

RECURSIVE Scan(_, _)
Scan(st, txt) == IF txt = <<>> THEN st ELSE Scan(ScanStep(st, Head(txt)), Tail(txt))

\* parts.map(p => numeric ? parseInt(p, 10) : p)
ToSeg(p) == IF IsNumericText(p) THEN [k |-> "Index", txt |-> p] ELSE [k |-> "Key", txt |-> p]

parsePath(path) ==
    LET st == Scan([parts |-> <<>>, current |-> <<>>, inPath |-> FALSE], path)
        all == IF st.current # <<>> THEN Append(st.parts, st.current) ELSE st.parts
    IN  AsSeq([i \in 1..Len(all) |-> ToSeg(all[i])])

\* JSON.parse(JSON.stringify(x))
RECURSIVE JsonClone(_)
JsonClone(n) ==
    CASE n.t = "obj" ->
            LET kept == SelectSeq(n.ks, LAMBDA key : GetProp(n, key).t # "undef")
            IN  Obj(kept, AsSeq([i \in 1..Len(kept) |-> JsonClone(GetProp(n, kept[i]))]))
      [] n.t = "arr" ->
            Arr(AsSeq([i \in 1..Len(n.el) |->
                        IF n.el[i].t = "undef" THEN Null ELSE JsonClone(n.el[i])]))
      [] OTHER -> n

\* The value reached from object root by the own properties keys, in order
RECURSIVE NodeAt(_, _)
NodeAt(root, keys) ==
    IF keys = <<>> THEN root ELSE NodeAt(GetProp(root, Head(keys)), Tail(keys))

\* root with the object at keys replaced by node (the in-place update of an
\* object that root holds)
RECURSIVE WriteAt(_, _, _)
WriteAt(root, keys, node) ==
    IF keys = <<>> THEN node
    ELSE PutProp(root, Head(keys), WriteAt(GetProp(root, Head(keys)), Tail(keys), node))

\* The document an object stands for, every reference followed
RECURSIVE Resolve(_, _)
Resolve(st, n) ==
    CASE n.t = "ref" -> Resolve(st, st[n.r])
      [] n.t = "obj" ->
            [n EXCEPT !.es = AsSeq([i \in 1..Len(n.es) |-> Resolve(st, n.es[i])])]
      [] n.t = "arr" ->
            [n EXCEPT !.es = AsSeq([i \in 1..Len(n.es) |-> Resolve(st, n.es[i])]),
                      !.el = AsSeq([i \in 1..Len(n.el) |-> Resolve(st, n.el[i])])]
      [] OTHER -> n

\* The property key a path part reads: the part itself, or "undefined" when
\* the path has no parts (pathParts[-1])
FinalKey(pathParts) ==
    IF pathParts = <<>> THEN <<"undefined">> ELSE pathParts[Len(pathParts)].txt

\* The last statement of applyChange, on the object current = st[r] at keys;
\* self is the store index of change.newValue.  The module is strict-mode
\* code: writing a property of a primitive throws, and so does deleting a
\* character of a string.
ApplyFinal(st, r, keys, pathParts, change, self) ==
    LET current == NodeAt(st[r], keys)
        finalKey == FinalKey(pathParts)
    IN  IF current.t \in {"null", "undef"}
        THEN [ok |-> FALSE, store |-> st, error |-> "TypeError: property of null"]
        ELSE IF change.kind = "D"
        THEN IF IsObject(current)
             THEN [ok |-> TRUE, error |-> "",
                   store |-> [st EXCEPT ![r] = WriteAt(@, keys, DeleteProp(current, finalKey))]]
             ELSE IF current.t = "str" /\ GetProp(current, finalKey).t # "undef"
             THEN [ok |-> FALSE, store |-> st, error |-> "TypeError: cannot delete property"]
             ELSE [ok |-> TRUE, store |-> st, error |-> ""]
        ELSE IF IsObject(current)
        THEN [ok |-> TRUE, error |-> "",
              store |-> [st EXCEPT ![r] = WriteAt(@, keys,
                            PutProp(current, finalKey,
                                    IF IsObject(change.newValue) THEN Ref(self)
                                    ELSE change.newValue))]]
        ELSE [ok |-> FALSE, store |-> st, error |-> "TypeError: cannot create property"]

\* The loop of applyChange from part i on, current being st[r] at keys
RECURSIVE Navigate(_, _, _, _, _, _, _)
Navigate(st, r, keys, pathParts, i, change, self) ==
    IF i > Len(pathParts) - 1 THEN ApplyFinal(st, r, keys, pathParts, change, self)
    ELSE LET current == NodeAt(st[r], keys)
             part == pathParts[i].txt
         IN  IF current.t \in {"null", "undef"}
             THEN [ok |-> FALSE, store |-> st, error |-> "TypeError: property of null"]
             ELSE IF GetProp(current, part).t = "undef"
             THEN IF IsObject(current)
                  THEN Navigate([st EXCEPT ![r] = WriteAt(@, keys,
                                    PutProp(current, part,
                                            IF pathParts[i + 1].k = "Index"
                                            THEN Arr(<<>>) ELSE Obj(<<>>, <<>>)))],
                                r, Append(keys, part), pathParts, i + 1, change, self)
                  ELSE [ok |-> FALSE, store |-> st,
                        error |-> "TypeError: cannot create property"]
             ELSE IF GetProp(current, part).t = "ref"
             THEN Navigate(st, GetProp(current, part).r, <<>>, pathParts, i + 1, change, self)
             ELSE Navigate(st, r, Append(keys, part), pathParts, i + 1, change, self)

\* applyChange(merged, allowed[self - 1]): merged is st[1]
applyChange(st, change, self) ==
    Navigate(st, 1, <<>>, parsePath(change.path), 1, change, self)

----------------------------------------------------------------------------
(* Documents of the model *)

O1(k1, v1) == Obj(<<k1>>, <<v1>>)

O2(k1, v1, k2, v2) == Obj(<<k1, k2>>, <<v1, v2>>)

\* The baseline of the end-to-end scenario:
\* {info: {description: 'v1'}, paths: {'/a': {get: {description: 'old'}}}}
BaseScenario ==
    O2(<<"info">>, O1(<<"description">>, Str("v1")),
       <<"paths">>, O1(<<SLASH, "a">>, O1(<<"get">>, O1(<<"description">>, Str("old")))))

\* The test fixture baseSpec, reduced to one response with one example
BaseFixture ==
    O1(<<"paths">>,
       O1(<<SLASH, "tasks">>,
          O1(<<"get">>,
             O1(<<"responses">>,
                O1(<<"2", "0", "0">>,
                   O1(<<"content">>,
                      O1(<<"application", SLASH, "json">>,
                         O1(<<"example">>, Arr(<<Str("old")>>)))))))))

\* A document with a key that contains a '.'
BaseDotted ==
    O1(<<"components">>,
       O1(<<"schemas">>,
          O2(<<"Pet", DOT, "description">>, Str("old"),
             <<"Pet">>, O1(<<"description">>, Str("old")))))

Baselines == {BaseScenario, BaseFixture, BaseDotted}

\* The addresses (key sequences from the root) of the values of a document
RECURSIVE AllAddrs(_)
AllAddrs(n) ==
    CASE n.t = "obj" ->
            UNION {{<<n.ks[i]>>} \cup {<<n.ks[i]>> \o a : a \in AllAddrs(n.es[i])}
                   : i \in 1..Len(n.ks)}
      [] n.t = "arr" ->
            UNION {{<<NumText(i - 1)>>} \cup {<<NumText(i - 1)>> \o a : a \in AllAddrs(n.el[i])}
                   : i \in 1..Len(n.el)}
      [] OTHER -> {}

Front(s) == SubSeq(s, 1, Len(s) - 1)

Last(s) == s[Len(s)]

\* The keys an editor may add to the container at an address
NewKeys(addr) ==
    CASE addr = <<>> -> {<<"externalDocs">>, <<"x-postman-tests">>, <<"x-ext">>}
      [] addr # <<>> /\ Last(addr) = <<"paths">> ->
            {<<SLASH, "b">>, <<SLASH, "v1", DOT, "0", SLASH, "users">>}
      [] addr # <<>> /\ Len(addr) = 2 /\ addr[1] = <<"paths">> -> {<<"post">>}
      [] OTHER -> {}

\* One edit of a document by its editor, who writes the string mark:
\* remove a value, replace a value by mark, or add a new member
\* {description: mark} to a container
UserEdits(doc, mark) ==
    LET addrs == AllAddrs(doc) IN
         {[op |-> "remove", at |-> a, val |-> Undef] : a \in addrs}
    \cup {[op |-> "set", at |-> a, val |-> Str(mark)] :
            a \in {b \in addrs : NodeAt(doc, b) # Str(mark)}}
    \cup UNION {{[op |-> "set", at |-> Append(a, k), val |-> O1(<<"description">>, Str(mark))]
                 : k \in {k2 \in NewKeys(a) : GetProp(NodeAt(doc, a), k2).t = "undef"}}
                : a \in {b \in addrs \cup {<<>>} : NodeAt(doc, b).t = "obj"}}

\* The document after the edit (removing an array element closes the gap)
EditDoc(doc, e) ==
    LET parent == NodeAt(doc, Front(e.at)) IN
    IF e.op = "remove"
    THEN IF parent.t = "arr"
         THEN WriteAt(doc, Front(e.at), Arr(RemoveAt(parent.el, TextNum(Last(e.at)) + 1)))
         ELSE WriteAt(doc, Front(e.at), DeleteProp(parent, Last(e.at)))
    ELSE WriteAt(doc, e.at, e.val)

----------------------------------------------------------------------------
(* Bounds *)

MaxLocalEdits == 1

MaxRemoteEdits == 2

MaxChanges == 2

MaxSegs == 2

----------------------------------------------------------------------------
(* The reverse-sync run: the repo spec and the collection are edited, the   *)
(* changes are detected and the safeToSync changes merged into the repo     *)
(* spec.                                                                    *)

SPEC_WINS == "spec-wins"

ConflictStrategies == {SPEC_WINS, "collection-wins", "interactive"}

\* What the caller of new SpecMerge(options) gives as options.conflictStrategy:
\* no such key, the value undefined, or a strategy
ABSENT == "absent"

UNDEFINED == "undefined"

StrategyOptions == {ABSENT, UNDEFINED} \cup ConflictStrategies

\* this.options.conflictStrategy after the constructor,
\* { conflictStrategy: options.conflictStrategy || 'spec-wins', ...options }:
\* the spread writes a key that options has over the default, whatever its value
conflictStrategyOption(given) == IF given = ABSENT THEN SPEC_WINS ELSE given

\* A switch that lets only collection-wins apply a conflicting change
SkipsConflictUnlessCollectionWins(change, strategy) ==
    change.hasConflict /\ strategy # "collection-wins"

\* if (change.hasConflict) if (this.options.conflictStrategy === 'spec-wins')
SkipsConflict(change, strategy) == change.hasConflict /\ strategy = SPEC_WINS

NoMerge ==
    /\ allowed = <<>>
    /\ idx = 0
    /\ store = <<>>
    /\ applied = <<>>
    /\ skipped = <<>>

NoPath ==
    /\ segs = <<>>
    /\ pathStr = <<>>
    /\ parts = <<>>

NoClassification == [direction |-> "", reason |-> <<>>]

NoDiff ==
    /\ diff = <<>>
    /\ classified = NoClassification

NoMatch ==
    /\ matchPattern = <<>>
    /\ matched = FALSE

NoSync ==
    /\ collection = <<>>
    /\ options = [dryRun |-> FALSE, inPlace |-> TRUE, noBackup |-> FALSE,
                  storeTestsAsExtension |-> FALSE]
    /\ files = <<>>
    /\ status = ""

NoError == [name |-> "none", status |-> 0, retryAfter |-> 0]

NoRetry ==
    /\ maxRetries = 0
    /\ attempt = 0
    /\ lastError = NoError
    /\ delay = 0
    /\ requests = 0

Init ==
    /\ pc = "edit"
    /\ strictMode \in BOOLEAN
    /\ conflictStrategy = SPEC_WINS
    /\ baseSpec \in Baselines
    /\ currentSpec = baseSpec
    /\ remoteSpec = baseSpec
    /\ changes = EmptyChanges
    /\ edited = [local |-> 0, remote |-> 0]
    /\ NoMerge
    /\ NoPath
    /\ NoDiff
    /\ NoRetry
    /\ NoSync
    /\ NoMatch

EditLocal ==
    /\ pc = "edit"
    /\ edited.local < MaxLocalEdits
    /\ \E e \in UserEdits(currentSpec, "local-edit") : currentSpec' = EditDoc(currentSpec, e)
    /\ edited' = [edited EXCEPT !.local = @ + 1]
    /\ UNCHANGED <<pc, strictMode, conflictStrategy, baseSpec, remoteSpec, changes,
                   allowed, idx, store, applied, skipped, segs, pathStr, parts,
                   diff, classified,
                   matchVars,
                   syncVars,
                   retryVars>>

EditRemote ==
    /\ pc = "edit"
    /\ edited.remote < MaxRemoteEdits
    /\ \E e \in UserEdits(remoteSpec, "remote-doc") : remoteSpec' = EditDoc(remoteSpec, e)
    /\ edited' = [edited EXCEPT !.remote = @ + 1]
    /\ UNCHANGED <<pc, strictMode, conflictStrategy, baseSpec, currentSpec, changes,
                   allowed, idx, store, applied, skipped, segs, pathStr, parts,
                   diff, classified,
                   matchVars,
                   syncVars,
                   retryVars>>

Detect ==
    /\ pc = "edit"
    /\ changes' = detectChanges(baseSpec, currentSpec, remoteSpec, strictMode)
    /\ pc' = "detected"
    /\ UNCHANGED <<strictMode, conflictStrategy, baseSpec, currentSpec, remoteSpec,
                   allowed, idx, store, applied, skipped, edited, segs, pathStr, parts,
                   diff, classified,
                   matchVars,
                   syncVars,
                   retryVars>>

\* The objects a call mergeSpecs(localSpec, remoteSpec, allowedChanges) can
\* write: its deep clone of localSpec, and the values the changes hold
InitialStore(localSpec, allowedChanges) ==
    <<JsonClone(localSpec)>>
    \o AsSeq([i \in 1..Len(allowedChanges) |-> allowedChanges[i].newValue])

\* mergeSpecs(localSpec, remoteSpec, changes.safeToSync), up to its loop
StartMerge ==
    /\ pc = "detected"
    /\ allowed' = changes.safeToSync
    /\ store' = InitialStore(currentSpec, changes.safeToSync)
    /\ idx' = 0
    /\ applied' = <<>>
    /\ skipped' = <<>>
    /\ pc' = IF changes.safeToSync = <<>> THEN "merged" ELSE "merging"
    /\ UNCHANGED <<strictMode, conflictStrategy, baseSpec, currentSpec, remoteSpec,
                   changes, edited, segs, pathStr, parts,
                   diff, classified,
                   matchVars,
                   syncVars,
                   retryVars>>

\* One pass of the loop of mergeSpecs, over allowedChanges[idx]
MergeStep ==
    /\ pc = "merging"
    /\ idx < Len(allowed)
    /\ LET change == allowed[idx + 1]
           res == applyChange(store, change, idx + 2)
       IN  IF SkipsConflict(change, conflictStrategy)
           THEN /\ skipped' = Append(skipped, [i |-> idx + 1, reason |-> "Conflict - spec wins"])
                /\ UNCHANGED <<store, applied>>
           ELSE /\ store' = res.store
                /\ IF res.ok
                   THEN applied' = Append(applied, idx + 1) /\ UNCHANGED skipped
                   ELSE /\ skipped' = Append(skipped, [i |-> idx + 1, reason |-> res.error])
                        /\ UNCHANGED applied
    /\ idx' = idx + 1
    /\ pc' = IF idx + 1 = Len(allowed) THEN "merged" ELSE "merging"
    /\ UNCHANGED <<strictMode, conflictStrategy, baseSpec, currentSpec, remoteSpec,
                   changes, allowed, edited, segs, pathStr, parts,
                   diff, classified,
                   matchVars,
                   syncVars,
                   retryVars>>

Next == EditLocal \/ EditRemote \/ Detect \/ StartMerge \/ MergeStep

Spec == Init /\ [][Next]_vars

\* The spec mergeSpecs returns
MergedSpec == Resolve(store, store[1])

----------------------------------------------------------------------------
(* mergeSpecs on its own: any list of changes against a target document     *)

\* A target with a string, an array and a null
TargetMixed ==
    Obj(<< <<"info">>, <<"tags">>, <<"x">> >>,
        << O1(<<"description">>, Str("v1")), Arr(<<Str("old")>>), Null >>)

MergeTargets == {BaseScenario, TargetMixed}

MergePaths == {
    <<"info", DOT, "description">>,
    <<"info", DOT, "description", DOT, "x">>,
    <<"info", DOT, "description", DOT, "0">>,
    <<"info">>,
    <<"tags", DOT, "0", DOT, "name">>,
    <<"servers", DOT, "0", DOT, "url">>,
    <<"x", DOT, "y">> }

Change(path, kind, newValue, hasConflict) ==
    [path |-> path, kind |-> kind, oldValue |-> Undef, newValue |-> newValue,
     direction |-> BIDIRECTIONAL, reason |-> <<>>, hasConflict |-> hasConflict]

MergeChanges ==
         {Change(p, "E", Str("remote-doc"), FALSE) : p \in MergePaths}
    \cup {Change(p, "N", O1(<<"description">>, Str("remote-doc")), FALSE) : p \in MergePaths}
    \cup {Change(p, "D", Undef, FALSE) : p \in MergePaths}
    \cup {Change(<<"info", DOT, "description">>, "E", Str("remote-doc"), TRUE)}

ChangeLists == UNION {[1..n -> MergeChanges] : n \in 0..MaxChanges}

InitMerge ==
    /\ strictMode = TRUE
    /\ conflictStrategy \in {conflictStrategyOption(given) : given \in StrategyOptions}
    /\ currentSpec \in MergeTargets
    /\ baseSpec = currentSpec
    /\ remoteSpec = currentSpec
    /\ changes = EmptyChanges
    /\ edited = [local |-> 0, remote |-> 0]
    /\ allowed \in ChangeLists
    /\ store = InitialStore(currentSpec, allowed)
    /\ idx = 0
    /\ applied = <<>>
    /\ skipped = <<>>
    /\ pc = IF allowed = <<>> THEN "merged" ELSE "merging"
    /\ NoPath
    /\ NoDiff
    /\ NoRetry
    /\ NoSync
    /\ NoMatch

NextMerge == MergeStep

SpecMerge == InitMerge /\ [][NextMerge]_vars

----------------------------------------------------------------------------
(* Addresses: the join of a deepDiff path and parsePath of the result       *)

PathSegs == {
    KeySeg(<<"paths">>),
    KeySeg(<<"2", "0", "0">>),
    KeySeg(<<SLASH, "a">>),
    KeySeg(<<SLASH, "v1", DOT, "0", SLASH, "users">>),
    KeySeg(<<"application", SLASH, "json">>),
    KeySeg(<<"a", DOT, "b">>),
    IndexSeg(0),
    IndexSeg(12) }

PathArrays == UNION {[1..n -> PathSegs] : n \in 0..MaxSegs}

InitPath ==
    /\ pc = "path"
    /\ segs \in PathArrays
    /\ pathStr = <<>>
    /\ parts = <<>>
    /\ strictMode = TRUE
    /\ conflictStrategy = SPEC_WINS
    /\ baseSpec = Undef
    /\ currentSpec = Undef
    /\ remoteSpec = Undef
    /\ changes = EmptyChanges
    /\ edited = [local |-> 0, remote |-> 0]
    /\ NoMerge
    /\ NoDiff
    /\ NoRetry
    /\ NoSync
    /\ NoMatch

\* (change.path || []).join('.')
Encode ==
    /\ pc = "path"
    /\ pathStr' = JoinPath(segs)
    /\ pc' = "joined"
    /\ UNCHANGED <<strictMode, conflictStrategy, baseSpec, currentSpec, remoteSpec,
                   changes, allowed, idx, store, applied, skipped, edited, segs, parts,
                   diff, classified,
                   matchVars,
                   syncVars,
                   retryVars>>

\* this.parsePath(change.path)
Decode ==
    /\ pc = "joined"
    /\ parts' = parsePath(pathStr)
    /\ pc' = "parsed"
    /\ UNCHANGED <<strictMode, conflictStrategy, baseSpec, currentSpec, remoteSpec,
                   changes, allowed, idx, store, applied, skipped, edited, segs, pathStr,
                   diff, classified,
                   matchVars,
                   syncVars,
                   retryVars>>

NextPath == Encode \/ Decode

SpecPath == InitPath /\ [][NextPath]_vars

----------------------------------------------------------------------------
(* deepDiff and detectChanges on any two roots                              *)

\* The schema of the test fixture baseSpec:
\* {components: {schemas: {Task: {properties: {id: {type: 'integer'}}}}}}
BaseSchema ==
    O1(<<"components">>,
       O1(<<"schemas">>,
          O1(<<"Task">>,
             O1(<<"properties">>, O1(<<"id">>, O1(<<"type">>, Str("integer")))))))

\* A document with an array: {tags: ['old', 'v1']}
TagsDoc == O1(<<"tags">>, Arr(<<Str("old"), Str("v1")>>))

\* The roots deepDiff is given: scalars, null, arrays and objects
DiffBases == {
    Str("v1"),
    Null,
    Obj(<<>>, <<>>),
    Arr(<<>>),
    Arr(<<Str("old")>>),
    Arr(<<Str("old"), Str("v1")>>),
    BaseScenario,
    BaseSchema,
    TagsDoc }

\* doc with the key at address a renamed: the member is deleted and set
\* again under the key 'renamed'
RenameAt(doc, a) ==
    LET parent == NodeAt(doc, Front(a))
    IN  WriteAt(doc, Front(a),
                PutProp(DeleteProp(parent, Last(a)), <<"renamed">>, GetProp(parent, Last(a))))

\* The addresses of the members of objects
RenameAddrs(doc) == {a \in AllAddrs(doc) : NodeAt(doc, Front(a)).t = "obj"}

SchemaProperties == << <<"components">>, <<"schemas">>, <<"Task">>, <<"properties">> >>

\* The schema with a property added, the tags made longer or an object, and
\* the scenario with a value changed, a member removed and a member added
DiffExtras ==
         {WriteAt(BaseSchema, Append(SchemaProperties, k), O1(<<"type">>, Str("string")))
            : k \in {<<"title">>, <<"description">>, <<"example">>}}
    \cup {O1(<<"tags">>, Arr(<<Str("old"), Str("v1"), Str("remote-doc")>>)),
          O1(<<"tags">>, O1(<<"description">>, Str("remote-doc"))),
          O2(<<"info">>, O1(<<"description">>, Str("remote-doc")),
             <<"externalDocs">>, O1(<<"description">>, Str("remote-doc")))}

\* The documents a root is compared with: every root, the root edited once,
\* the root with one key renamed, and the extras
DiffCompares(base) ==
         DiffBases
    \cup {EditDoc(base, e) : e \in UserEdits(base, "remote-doc")}
    \cup {RenameAt(base, a) : a \in RenameAddrs(base)}
    \cup DiffExtras

InitDiff ==
    /\ pc = "roots"
    /\ strictMode \in BOOLEAN
    /\ conflictStrategy = SPEC_WINS
    /\ baseSpec \in DiffBases
    /\ remoteSpec \in DiffCompares(baseSpec)
    /\ currentSpec \in {baseSpec, Null}
    /\ changes = EmptyChanges
    /\ edited = [local |-> 0, remote |-> 0]
    /\ NoMerge
    /\ NoPath
    /\ NoDiff
    /\ NoRetry
    /\ NoSync
    /\ NoMatch

\* deepDiff(baseSpec, remoteSpec)
DiffRoots ==
    /\ pc = "roots"
    /\ diff' = DeepDiff(baseSpec, remoteSpec, <<>>)
    /\ pc' = "diffed"
    /\ UNCHANGED <<strictMode, conflictStrategy, baseSpec, currentSpec, remoteSpec,
                   changes, allowed, idx, store, applied, skipped, edited, segs, pathStr,
                   parts, classified,
                   matchVars,
                   syncVars,
                   retryVars>>

\* detectChanges(baseSpec, currentSpec, remoteSpec): it has no throw and no
\* check of its arguments, and always returns its changes object
DetectRoots ==
    /\ pc = "diffed"
    /\ changes' = detectChanges(baseSpec, currentSpec, remoteSpec, strictMode)
    /\ pc' = "detected"
    /\ UNCHANGED <<strictMode, conflictStrategy, baseSpec, currentSpec, remoteSpec,
                   allowed, idx, store, applied, skipped, edited, segs, pathStr, parts,
                   diff, classified,
                   matchVars,
                   syncVars,
                   retryVars>>

NextDiff == DiffRoots \/ DetectRoots

SpecDiff == InitDiff /\ [][NextDiff]_vars

----------------------------------------------------------------------------
(* classifyChange on its own                                                *)

ClassifyPrefixes == {
    <<"paths", DOT, SLASH, "a", DOT, "get">>,
    <<"components", DOT, "schemas", DOT, "Task">>,
    <<"info">>,
    <<"tags", DOT, "0">>,
    <<"servers", DOT, "0">>,
    <<"x-ext">> }

ClassifyTails == {
    <<>>,
    <<DOT, "description">>,
    <<DOT, "summary">>,
    <<DOT, "example">>,
    <<DOT, "example", DOT, "0", DOT, "title">>,
    <<DOT, "examples", DOT, "a">>,
    <<DOT, "externalDocs", DOT, "url">>,
    <<DOT, "description", DOT, "title">>,
    <<DOT, "properties", DOT, "description">>,
    <<DOT, "x-postman-tests">>,
    <<DOT, "title">> }

ClassifyPaths == {p \o t : p \in ClassifyPrefixes, t \in ClassifyTails}

InitClassify ==
    /\ pc = "address"
    /\ strictMode \in BOOLEAN
    /\ pathStr \in ClassifyPaths
    /\ segs = <<>>
    /\ parts = <<>>
    /\ conflictStrategy = SPEC_WINS
    /\ baseSpec = Undef
    /\ currentSpec = Undef
    /\ remoteSpec = Undef
    /\ changes = EmptyChanges
    /\ edited = [local |-> 0, remote |-> 0]
    /\ NoMerge
    /\ NoDiff
    /\ NoRetry
    /\ NoSync
    /\ NoMatch

\* this.classifyChange(pathStr, change)
Classify ==
    /\ pc = "address"
    /\ classified' = classifyChange(pathStr, strictMode)
    /\ pc' = "classified"
    /\ UNCHANGED <<strictMode, conflictStrategy, baseSpec, currentSpec, remoteSpec,
                   changes, allowed, idx, store, applied, skipped, edited, segs, pathStr,
                   parts, diff,
                   matchVars,
                   syncVars,
                   retryVars>>

NextClassify == Classify

SpecClassify == InitClassify /\ [][NextClassify]_vars

----------------------------------------------------------------------------
(* pathMatchesPattern on the addresses deepDiff builds                      *)

\* A path array of keys and indices: a number stands for an index
Address(keys) ==
    AsSeq([i \in 1..Len(keys) |->
              IF IsNumericText(keys[i]) /\ Len(keys[i]) = 1
              THEN IndexSeg(TextNum(keys[i])) ELSE KeySeg(keys[i])])

OperationA == << <<"paths">>, <<SLASH, "a">>, <<"get">> >>

InitMatch ==
    LET
        OperationUsers == << <<"paths">>, <<SLASH, "v1", DOT, "0", SLASH, "users">>, <<"get">> >>
        MatchAddresses == {Address(keys) : keys \in {
            << <<"paths">> >>,
            << <<"paths">>, <<SLASH, "a">> >>,
            OperationA,
            OperationA \o << <<"description">> >>,
            OperationA \o << <<"summary">> >>,
            OperationA \o << <<"parameters">>, <<"0">>, <<"description">> >>,
            OperationA \o << <<"responses">>, <<"2", "0", "0">>, <<"content">>,
                             <<"application", SLASH, "json">>, <<"example">> >>,
            << <<"paths">>, <<SLASH, "v1", DOT, "0", SLASH, "users">> >>,
            OperationUsers,
            OperationUsers \o << <<"description">> >>,
            OperationUsers \o << <<"summary">> >>,
            << <<"tags">>, <<"0">>, <<"description">> >>,
            << <<"info">>, <<"description">> >>,
            << <<"components">> >>,
            << <<"components">>, <<"schemas">>, <<"Task">> >> }}
        \* The patterns of the two lists, and two patterns with a partial wildcard:
        \* 'paths./*' and 'paths./*.get'
        MatchPatterns ==
                 {SPEC_SOURCE_OF_TRUTH[i] : i \in 1..Len(SPEC_SOURCE_OF_TRUTH)}
            \cup {BIDIRECTIONAL_FIELDS[i] : i \in 1..Len(BIDIRECTIONAL_FIELDS)}
            \cup {<<"paths", DOT, SLASH, STAR>>, <<"paths", DOT, SLASH, STAR, DOT, "get">>}
    IN
    /\ pc = "address"
    /\ segs \in MatchAddresses
    /\ matchPattern \in MatchPatterns
    /\ matched = FALSE
    /\ pathStr = <<>>
    /\ parts = <<>>
    /\ strictMode = TRUE
    /\ conflictStrategy = SPEC_WINS
    /\ baseSpec = Undef
    /\ currentSpec = Undef
    /\ remoteSpec = Undef
    /\ changes = EmptyChanges
    /\ edited = [local |-> 0, remote |-> 0]
    /\ NoMerge
    /\ NoDiff
    /\ NoRetry
    /\ NoSync

\* const pathStr = change.path.join('.'), then
\* this.pathMatchesPattern(pathStr, pattern)
Match ==
    /\ pc = "address"
    /\ pathStr' = JoinPath(segs)
    /\ matched' = pathMatchesPattern(JoinPath(segs), matchPattern)
    /\ pc' = "matched"
    /\ UNCHANGED <<strictMode, conflictStrategy, baseSpec, currentSpec, remoteSpec,
                   changes, allowed, idx, store, applied, skipped, edited, segs, parts,
                   diff, classified, matchPattern,
                   syncVars,
                   retryVars>>

NextMatch == Match

SpecMatch == InitMatch /\ [][NextMatch]_vars

----------------------------------------------------------------------------
(* One edit of the differ, classified and applied by mergeSpecs             *)

\* {paths: {'/a': {get: {}}}}, an operation that has lost its responses,
\* and the fixtures
ApplyTargets ==
    {O1(<<"paths">>, O1(<<SLASH, "a">>, O1(<<"get">>, Obj(<<>>, <<>>)))),
     BaseFixture, TargetMixed, TagsDoc}

ApplyAddresses ==
    LET
        FixtureResponse ==
            << <<"paths">>, <<SLASH, "tasks">>, <<"get">>, <<"responses">>, <<"2", "0", "0">> >>
    IN
    {Address(keys) : keys \in {
    OperationA \o << <<"responses">> >>,
    OperationA \o << <<"responses">>, <<"2", "0", "0">>, <<"description">> >>,
    OperationA \o << <<"parameters">>, <<"0">>, <<"description">> >>,
    FixtureResponse \o << <<"description">> >>,
    FixtureResponse \o << <<"content">>, <<"application", SLASH, "json">>, <<"example">> >>,
    << <<"tags">>, <<"0">> >>,
    << <<"tags">>, <<"1">> >>,
    << <<"tags">>, <<"2">> >>,
    << <<"info">> >>,
    << <<"info">>, <<"description">> >>,
    << <<"servers">>, <<"0">>, <<"url">> >>,
    << <<"x">>, <<"y">> >> }}

InitApply ==
    LET
        \* The edits deepDiff can emit at an address
        ApplyEdits ==
            {[kind |-> "E", path |-> a, lhs |-> Str("old"), rhs |-> Str("remote-doc")]
                : a \in ApplyAddresses}
            \cup {[kind |-> "N", path |-> a, lhs |-> Undef, rhs |-> Str("remote-doc")]
                : a \in ApplyAddresses}
            \cup {[kind |-> "D", path |-> a, lhs |-> Str("old"), rhs |-> Undef]
                : a \in ApplyAddresses}
    IN
    /\ pc = "diffed"
    /\ strictMode = TRUE
    /\ conflictStrategy = SPEC_WINS
    /\ currentSpec \in ApplyTargets
    /\ baseSpec = currentSpec
    /\ remoteSpec = currentSpec
    /\ \E edit \in ApplyEdits : diff = <<edit>> /\ segs = edit.path
    /\ classified = NoClassification
    /\ pathStr = <<>>
    /\ parts = <<>>
    /\ changes = EmptyChanges
    /\ edited = [local |-> 0, remote |-> 0]
    /\ NoMerge
    /\ NoMatch
    /\ NoSync
    /\ NoRetry

\* The change record detectChanges builds of the edit, handed to
\* mergeSpecs(localSpec, remoteSpec, [change]), up to its loop
RecordChange ==
    /\ pc = "diffed"
    /\ LET change == ClassifiedChange(diff[1], {}, strictMode)
       IN  /\ pathStr' = change.path
           /\ allowed' = <<change>>
           /\ store' = InitialStore(currentSpec, <<change>>)
    /\ idx' = 0
    /\ applied' = <<>>
    /\ skipped' = <<>>
    /\ pc' = "merging"
    /\ UNCHANGED <<strictMode, conflictStrategy, baseSpec, currentSpec, remoteSpec,
                   changes, edited, segs, parts, diff, classified, matchVars,
                   syncVars,
                   retryVars>>

NextApply == RecordChange \/ MergeStep

SpecApply == InitApply /\ [][NextApply]_vars

----------------------------------------------------------------------------
(* ReverseSync.reverseSync                                                  *)

\* A request item of the collection: the path of its url, its method, its
\* description (Undef when it has none) and whether it has test events
Item(description, tests) ==
    [urlPath |-> <<SLASH, "a">>, method |-> <<"get">>,
     description |-> description, tests |-> tests]

\* `paths.${urlPath}.${method}.${field}`
ItemPath(item, field) ==
    <<"paths", DOT>> \o item.urlPath \o <<DOT>> \o item.method \o <<DOT, field>>

\* extractDescriptionsFromItems over the request items from item i on
RECURSIVE extractDescriptionsFromItems(_, _, _)
extractDescriptionsFromItems(items, acc, i) ==
    IF i > Len(items) THEN acc
    ELSE LET item == items[i]
             described ==
                 IF item.description.t # "undef"
                 THEN [acc EXCEPT !.safeToSync = Append(@,
                          [path |-> ItemPath(item, "description"), kind |-> "E",
                           oldValue |-> Undef, newValue |-> item.description,
                           direction |-> BIDIRECTIONAL,
                           reason |-> <<"Request description">>, hasConflict |-> FALSE])]
                 ELSE acc
             tested ==
                 IF item.tests
                 THEN [described EXCEPT !.tests = Append(@,
                          [path |-> ItemPath(item, "tests"), kind |-> "E",
                           oldValue |-> Undef, newValue |-> Arr(<<Str("test")>>),
                           direction |-> COLLECTION_ONLY,
                           reason |-> <<"Test scripts">>, hasConflict |-> FALSE])]
                 ELSE described
         IN  extractDescriptionsFromItems(items, tested, i + 1)

extractChangesFromCollection(items) == extractDescriptionsFromItems(items, EmptyChanges, 1)

\* The third argument of the mergeSpecs call
mergeInputWithReview(ch) == ch.safeToSync \o ch.needsReview

mergeInput(ch) == ch.safeToSync

\* txt.split('/')
RECURSIVE SplitSlash(_)
SplitSlash(txt) ==
    IF \A i \in 1..Len(txt) : txt[i] # SLASH THEN <<txt>>
    ELSE LET d == CHOOSE i \in 1..Len(txt) :
                      txt[i] = SLASH /\ \A j \in 1..(i - 1) : txt[j] # SLASH
         IN  <<SubSeq(txt, 1, d - 1)>> \o SplitSlash(SubSeq(txt, d + 1, Len(txt)))

pathsMatch(specPath, urlPath) ==
    LET specParts == SplitSlash(specPath)
        urlParts == SplitSlash(urlPath)
    IN  /\ Len(specParts) = Len(urlParts)
        /\ \A i \in 1..Len(specParts) :
              \/ /\ specParts[i] # <<>>
                 /\ specParts[i][1] = "{"
                 /\ specParts[i][Len(specParts[i])] = "}"
              \/ specParts[i] = urlParts[i]

\* The address of the operation findOperation returns (<<>> for null)
findOperation(spec, urlPath, method) ==
    LET paths == GetProp(spec, <<"paths">>)
        found(p) == IsObject(GetProp(paths, p)) /\ IsObject(GetProp(GetProp(paths, p), method))
    IN  IF ~IsObject(paths) THEN <<>>
        ELSE IF found(urlPath) THEN << <<"paths">>, urlPath, method >>
        ELSE IF \E i \in 1..Len(paths.ks) : pathsMatch(paths.ks[i], urlPath) /\ found(paths.ks[i])
        THEN LET i == CHOOSE i \in 1..Len(paths.ks) :
                          /\ pathsMatch(paths.ks[i], urlPath) /\ found(paths.ks[i])
                          /\ \A j \in 1..(i - 1) :
                                ~(pathsMatch(paths.ks[j], urlPath) /\ found(paths.ks[j]))
             IN  << <<"paths">>, paths.ks[i], method >>
        ELSE <<>>

\* applyTestsAsExtensions(spec, collection) from item i on: the operations of
\* the documents here are objects
RECURSIVE applyTestsAsExtensions(_, _, _)
applyTestsAsExtensions(spec, items, i) ==
    IF i > Len(items) THEN spec
    ELSE LET operation == findOperation(spec, items[i].urlPath, items[i].method)
         IN  applyTestsAsExtensions(
                 IF items[i].tests /\ operation # <<>>
                 THEN WriteAt(spec, Append(operation, <<"x-postman-tests">>),
                              Arr(<<Str("test")>>))
                 ELSE spec,
                 items, i + 1)

InitSync ==
    LET
        DescriptionOfA == << <<"paths">>, <<SLASH, "a">>, <<"get">>, <<"description">> >>
        Collections == {
            <<>>,
            <<Item(Str("remote-doc"), FALSE)>>,
            <<Item(Undef, TRUE)>>,
            <<Item(Str("remote-doc"), TRUE)>> }
        \* options of reverseSync: dryRun, outputPath === specPath (inPlace) and
        \* noBackup, together with config.storeTestsAsExtension
        SyncOptions == {
            [dryRun |-> TRUE, inPlace |-> TRUE, noBackup |-> FALSE, storeTestsAsExtension |-> TRUE],
            [dryRun |-> FALSE, inPlace |-> TRUE, noBackup |-> FALSE, storeTestsAsExtension |-> TRUE],
            [dryRun |-> FALSE, inPlace |-> TRUE, noBackup |-> TRUE, storeTestsAsExtension |-> TRUE],
            [dryRun |-> FALSE, inPlace |-> FALSE, noBackup |-> FALSE, storeTestsAsExtension |-> TRUE],
            [dryRun |-> FALSE, inPlace |-> TRUE, noBackup |-> FALSE, storeTestsAsExtension |-> FALSE] }
        \* The local spec: the baseline, or the baseline with a description edited
        \* or a path deleted
        SyncLocals == {
            BaseScenario,
            WriteAt(BaseScenario, << <<"info">>, <<"description">> >>, Str("local-edit")),
            WriteAt(BaseScenario, DescriptionOfA, Str("local-edit")),
            EditDoc(BaseScenario, [op |-> "remove", at |-> << <<"paths">>, <<SLASH, "a">> >>, val |-> Undef]) }
        \* The spec of the collection: null when the transformation failed, the
        \* baseline, the baseline with one edit, or with both descriptions edited
        SyncRemotes ==
            {Null, BaseScenario}
            \cup {EditDoc(BaseScenario, e) : e \in UserEdits(BaseScenario, "remote-doc")}
            \cup {WriteAt(WriteAt(BaseScenario, << <<"info">>, <<"description">> >>, Str("remote-doc")),
                          DescriptionOfA, Str("remote-doc"))}
    IN
    /\ pc = "loaded"
    /\ strictMode = TRUE
    /\ conflictStrategy \in {conflictStrategyOption(given) : given \in StrategyOptions}
    /\ currentSpec \in SyncLocals
    /\ baseSpec \in {BaseScenario, currentSpec}
    /\ remoteSpec \in SyncRemotes
    /\ collection \in Collections
    /\ options \in SyncOptions
    /\ files = <<>>
    /\ status = ""
    /\ changes = EmptyChanges
    /\ edited = [local |-> 0, remote |-> 0]
    /\ NoMerge
    /\ NoPath
    /\ NoDiff
    /\ NoMatch
    /\ NoRetry

\* Step 5: detectChanges, or extractChangesFromCollection when there is no
\* remoteSpec
SyncDetect ==
    /\ pc = "loaded"
    /\ changes' = IF remoteSpec # Null
                  THEN detectChanges(baseSpec, currentSpec, remoteSpec, strictMode)
                  ELSE extractChangesFromCollection(collection)
    /\ pc' = "detected"
    /\ UNCHANGED <<strictMode, conflictStrategy, baseSpec, currentSpec, remoteSpec,
                   allowed, idx, store, applied, skipped, edited, segs, pathStr, parts,
                   diff, classified, matchVars, syncVars, retryVars>>

\* Step 6: if (options.dryRun) return { status: 'dry-run', ... }
ReturnDryRun ==
    /\ pc = "detected"
    /\ options.dryRun
    /\ status' = "dry-run"
    /\ pc' = "returned"
    /\ UNCHANGED <<strictMode, conflictStrategy, baseSpec, currentSpec, remoteSpec,
                   changes, allowed, idx, store, applied, skipped, edited, segs, pathStr,
                   parts, diff, classified, matchVars, collection, options, files,
                   retryVars>>

\* Step 8: nothing in safeToSync and nothing in tests
ReturnNoChanges ==
    /\ pc = "detected"
    /\ ~options.dryRun
    /\ changes.safeToSync = <<>> /\ changes.tests = <<>>
    /\ status' = "no-changes"
    /\ pc' = "returned"
    /\ UNCHANGED <<strictMode, conflictStrategy, baseSpec, currentSpec, remoteSpec,
                   changes, allowed, idx, store, applied, skipped, edited, segs, pathStr,
                   parts, diff, classified, matchVars, collection, options, files,
                   retryVars>>

\* this.specMerge.mergeSpecs(localSpec, remoteSpec || localSpec,
\* changes.safeToSync), up to its loop
SyncMerge ==
    /\ pc = "detected"
    /\ ~options.dryRun
    /\ ~(changes.safeToSync = <<>> /\ changes.tests = <<>>)
    /\ allowed' = mergeInput(changes)
    /\ store' = InitialStore(currentSpec, mergeInput(changes))
    /\ idx' = 0
    /\ applied' = <<>>
    /\ skipped' = <<>>
    /\ pc' = IF mergeInput(changes) = <<>> THEN "merged" ELSE "merging"
    /\ UNCHANGED <<strictMode, conflictStrategy, baseSpec, currentSpec, remoteSpec,
                   changes, edited, segs, pathStr, parts, diff, classified, matchVars,
                   syncVars, retryVars>>

\* Step 9: the tests of the collection are stored in mergeResult.spec
StoreTests ==
    /\ pc = "merged"
    /\ store' = IF options.storeTestsAsExtension
                THEN [store EXCEPT ![1] = applyTestsAsExtensions(MergedSpec, collection, 1)]
                ELSE store
    /\ pc' = "tested"
    /\ UNCHANGED <<strictMode, conflictStrategy, baseSpec, currentSpec, remoteSpec,
                   changes, allowed, idx, applied, skipped, edited, segs, pathStr, parts,
                   diff, classified, matchVars, syncVars, retryVars>>

\* A run that never makes the backup
BackupSkipped(opts) == FALSE

\* outputPath === specPath && !options.noBackup
BackupWanted(opts) == opts.inPlace /\ ~opts.noBackup

\* this.specMerge.backupSpec(specPath): a copy of the spec file
BackupSpec ==
    /\ pc = "tested"
    /\ BackupWanted(options)
    /\ files' = Append(files, [file |-> "backup", content |-> currentSpec])
    /\ pc' = "backed-up"
    /\ UNCHANGED <<strictMode, conflictStrategy, baseSpec, currentSpec, remoteSpec,
                   changes, allowed, idx, store, applied, skipped, edited, segs, pathStr,
                   parts, diff, classified, matchVars, collection, options, status,
                   retryVars>>

\* this.specMerge.writeSpec(mergeResult.spec, outputPath)
WriteSpec ==
    /\ \/ pc = "backed-up"
       \/ pc = "tested" /\ ~BackupWanted(options)
    /\ files' = Append(files, [file |-> IF options.inPlace THEN "spec" ELSE "output",
                               content |-> JsonClone(MergedSpec)])
    /\ pc' = "written"
    /\ UNCHANGED <<strictMode, conflictStrategy, baseSpec, currentSpec, remoteSpec,
                   changes, allowed, idx, store, applied, skipped, edited, segs, pathStr,
                   parts, diff, classified, matchVars, collection, options, status,
                   retryVars>>

\* await this.saveBaseline(specPath, mergeResult.spec); return { status: 'synced', ... }
SaveBaseline ==
    /\ pc = "written"
    /\ files' = Append(files, [file |-> "baseline", content |-> JsonClone(MergedSpec)])
    /\ status' = "synced"
    /\ pc' = "returned"
    /\ UNCHANGED <<strictMode, conflictStrategy, baseSpec, currentSpec, remoteSpec,
                   changes, allowed, idx, store, applied, skipped, edited, segs, pathStr,
                   parts, diff, classified, matchVars, collection, options,
                   retryVars>>

\* A call of fs throws (copyFileSync, writeFileSync, mkdirSync): the run
\* rejects and returns nothing
FileError ==
    /\ pc \in {"tested", "backed-up", "written"}
    /\ status' = "thrown"
    /\ pc' = "thrown"
    /\ UNCHANGED <<strictMode, conflictStrategy, baseSpec, currentSpec, remoteSpec,
                   changes, allowed, idx, store, applied, skipped, edited, segs, pathStr,
                   parts, diff, classified, matchVars, collection, options, files,
                   retryVars>>

NextSync ==
    \/ SyncDetect
    \/ ReturnDryRun
    \/ ReturnNoChanges
    \/ SyncMerge
    \/ MergeStep
    \/ StoreTests
    \/ BackupSpec
    \/ WriteSpec
    \/ SaveBaseline
    \/ FileError

SpecSync == InitSync /\ [][NextSync]_vars

----------------------------------------------------------------------------
(* SpecHubClient.requestWithRetry                                           *)

\* The largest options.maxRetries of the clients checked
MaxRetries == 3

\* this.retryDelay and this.maxRetryDelay, in ms (the defaults)
retryDelay == 1000

maxRetryDelay == 30000

TIMEOUT == 0

REFUSED == 1

\* The error request throws for a response (NoError when it returns); status
\* is the status of the response, which a plain Error has in its message
\* `API Error ${response.status} on ...`
requestError(response) ==
    CASE response.status \in {TIMEOUT, REFUSED} ->
            [name |-> "NetworkError", status |-> response.status, retryAfter |-> 0]
      [] response.status \in {200, 204} -> NoError
      [] response.status = 401 ->
            [name |-> "AuthenticationError", status |-> 401, retryAfter |-> 0]
      [] response.status = 404 ->
            [name |-> "NotFoundError", status |-> 404, retryAfter |-> 0]
      [] response.status = 429 ->
            [name |-> "RateLimitError", status |-> 429, retryAfter |-> response.retryAfter]
      [] OTHER -> [name |-> "Error", status |-> response.status, retryAfter |-> 0]

\* error instanceof AuthenticationError ||
\* (error.message && error.message.match(/API Error 4\d{2}/)): only a plain
\* Error has 'API Error' and the status in its message
isClientError(error) ==
    \/ error.name = "AuthenticationError"
    \/ error.name = "Error" /\ error.status \div 100 = 4

\* calculateRetryDelay(attempt, retryAfter): the delays it can return, the
\* jitter of Math.random() being anywhere within a quarter of the delay
calculateRetryDelay(n, retryAfter) ==
    LET Min(a, b) == IF a < b THEN a ELSE b IN
    IF retryAfter # 0
    THEN {Min(retryAfter * 1000 + 100, maxRetryDelay)}
    ELSE LET exponentialDelay == retryDelay * 2^n
         IN  {Min(exponentialDelay + jitter, maxRetryDelay)
                : jitter \in {-(exponentialDelay \div 4), 0, exponentialDelay \div 4 - 1}}

InitRetry ==
    /\ pc = "request"
    /\ maxRetries \in 1..MaxRetries
    /\ attempt = 0
    /\ lastError = NoError
    /\ delay = 0
    /\ requests = 0
    /\ strictMode = TRUE
    /\ conflictStrategy = SPEC_WINS
    /\ baseSpec = Undef
    /\ currentSpec = Undef
    /\ remoteSpec = Undef
    /\ changes = EmptyChanges
    /\ edited = [local |-> 0, remote |-> 0]
    /\ NoMerge
    /\ NoPath
    /\ NoDiff
    /\ NoMatch
    /\ NoSync

\* One pass of the loop: await this.request(...), and the catch block up to
\* the sleep
Request ==
    LET
        \* What a call of fetch ends in: a response with a status (and, for 429, a
        \* Retry-After header in seconds, 0 when it has none), a timeout, or a
        \* refused connection
        Response(st, retryAfter) == [status |-> st, retryAfter |-> retryAfter]
        Responses ==
            {Response(st, 0) : st \in {200, 204, 400, 401, 403, 404, 429, 500, 503, TIMEOUT, REFUSED}}
            \cup {Response(429, 2), Response(429, 60)}
    IN
    /\ pc = "request"
    /\ attempt <= maxRetries
    /\ requests' = requests + 1
    /\ \E response \in Responses :
          LET error == requestError(response) IN
          IF error = NoError
          THEN pc' = "returned" /\ UNCHANGED <<lastError, delay>>
          ELSE /\ lastError' = error
               /\ IF isClientError(error) \/ attempt >= maxRetries
                  THEN pc' = "thrown" /\ UNCHANGED delay
                  ELSE /\ pc' = "sleeping"
                       /\ delay' \in calculateRetryDelay(attempt, error.retryAfter)
    /\ UNCHANGED <<strictMode, conflictStrategy, baseSpec, currentSpec, remoteSpec,
                   changes, allowed, idx, store, applied, skipped, edited, segs, pathStr,
                   parts, diff, classified, matchVars, syncVars, maxRetries, attempt>>

\* await this.sleep(delay) is over: attempt++
Sleep ==
    /\ pc = "sleeping"
    /\ attempt' = attempt + 1
    /\ pc' = "request"
    /\ UNCHANGED <<strictMode, conflictStrategy, baseSpec, currentSpec, remoteSpec,
                   changes, allowed, idx, store, applied, skipped, edited, segs, pathStr,
                   parts, diff, classified, matchVars, syncVars, maxRetries, lastError,
                   delay, requests>>

NextRetry == Request \/ Sleep

SpecRetry == InitRetry /\ [][NextRetry]_vars

----------------------------------------------------------------------------
(* detectChanges on a baseline, a local spec and a remote spec: ChangeDetector *)
(* keeps no state between calls, so the three documents are its only input.   *)

\* The most edits that separate the local spec from the baseline
MaxDocEdits == 2

InitDetect ==
    LET
        \* The documents an editor who writes mark reaches from doc in at most
        \* n edits
        RECURSIVE EditedDocs(_, _, _)
        EditedDocs(doc, mark, n) ==
            IF n = 0
            THEN {doc}
            ELSE {doc} \cup UNION {EditedDocs(EditDoc(doc, e), mark, n - 1)
                                   : e \in UserEdits(doc, mark)}
    IN
    /\ pc = "edit"
    /\ strictMode \in BOOLEAN
    /\ conflictStrategy = SPEC_WINS
    /\ baseSpec \in Baselines
    /\ currentSpec \in EditedDocs(baseSpec, "local-edit", MaxDocEdits)
    /\ remoteSpec \in EditedDocs(baseSpec, "remote-doc", 1)
    /\ changes = EmptyChanges
    /\ edited = [local |-> 0, remote |-> 0]
    /\ NoMerge
    /\ NoPath
    /\ NoDiff
    /\ NoRetry
    /\ NoSync
    /\ NoMatch

SpecDetect == InitDetect /\ [][Detect]_vars

----------------------------------------------------------------------------
(* Properties *)

Range(f) == {f[i] : i \in DOMAIN f}

Detected == pc \in {"detected", "merging", "merged"}

Routed(ch) == ch.safeToSync \o ch.needsReview \o ch.blocked \o ch.tests

RemoteDiff == DeepDiff(baseSpec, remoteSpec, <<>>)

LocalDiff == DeepDiff(baseSpec, currentSpec, <<>>)

\* The classified change of the i-th remote edit
Classified(i) == ClassifiedChange(RemoteDiff[i], LocalChangePaths(LocalDiff), strictMode)

\* C1: the diff of a document against a structurally equal copy is empty, and
\* detectChanges over three equal documents returns four empty buckets.  The
\* documents are the baselines, every edited repo spec and collection spec,
\* and every merged spec.
C1_NoOpDiff ==
    \A X \in (IF pc = "detected" THEN {baseSpec, currentSpec, remoteSpec} ELSE {}) \cup
             (IF pc = "merged" THEN {MergedSpec} ELSE {}) :
        /\ DeepDiff(X, X, <<>>) = <<>>
        /\ detectChanges(X, X, X, strictMode) = EmptyChanges

C1_Witness ==
    /\ pc = "merged"
    /\ applied # <<>>
    /\ MergedSpec # currentSpec
    /\ DeepDiff(MergedSpec, MergedSpec, <<>>) = <<>>

\* The documents of the end-to-end scenario
LocalScenario ==
    WriteAt(BaseScenario, << <<"info">>, <<"description">> >>, Str("local-edit"))

RemoteScenario ==
    WriteAt(WriteAt(BaseScenario,
                    << <<"paths">>, <<SLASH, "a">>, <<"get">>, <<"description">> >>,
                    Str("remote-doc")),
            << <<"paths">>, <<SLASH, "a">>, <<"post">> >>,
            O1(<<"description">>, Str("remote-doc")))

InScenario ==
    /\ baseSpec = BaseScenario
    /\ currentSpec = LocalScenario
    /\ remoteSpec = RemoteScenario

\* C2: in the end-to-end scenario detectChanges blocks exactly the edit at
\* paths./a.post, finds exactly the edit at paths./a.get.description safe to
\* sync and without conflict, and nothing to review; merging the safe edit
\* into local gives a document with the remote description and the local
\* info.description.
C2_Scenario ==
    InScenario =>
        /\ Detected =>
            /\ Len(changes.blocked) = 1
            /\ changes.blocked[1].path = <<"paths", DOT, SLASH, "a", DOT, "post">>
            /\ Len(changes.safeToSync) = 1
            /\ changes.safeToSync[1].path =
                    <<"paths", DOT, SLASH, "a", DOT, "get", DOT, "description">>
            /\ changes.safeToSync[1].newValue = Str("remote-doc")
            /\ changes.safeToSync[1].hasConflict = FALSE
            /\ changes.needsReview = <<>>
        /\ pc = "merged" =>
            /\ NodeAt(MergedSpec, << <<"paths">>, <<SLASH, "a">>, <<"get">>, <<"description">> >>)
                    = Str("remote-doc")
            /\ NodeAt(MergedSpec, << <<"info">>, <<"description">> >>) = Str("local-edit")

C2_Witness == InScenario /\ pc = "merged" /\ applied = <<1>>

\* The values the merged changes hold are as they were before mergeSpecs:
\* nothing was written through a shared object
ValuesIntact == \A i \in 1..Len(allowed) : store[i + 1] = allowed[i].newValue

\* C3: after a merge of the safeToSync changes in which every change was
\* applied, detecting changes of the merged spec against the same remote
\* finds nothing safe to sync.  The claim is stated for every local document;
\* it is stated here for the merges into a local document that is the
\* baseline itself, over the baseline whose keys are a media type
\* (application/json), a status code (200) and an array index.
C3_IdempotentAfterMerge ==
    (/\ pc = "merged"
     /\ baseSpec = BaseFixture
     /\ currentSpec = baseSpec
     /\ allowed # <<>>
     /\ skipped = <<>>) =>
        detectChanges(MergedSpec, MergedSpec, remoteSpec, strictMode).safeToSync = <<>>

\* C4: for a path array in which no key that does not begin with '/' contains
\* a '.', parsePath(path.join('.')) is the path array, kinds included.
NoDotInPlainKey ==
    \A i \in 1..Len(segs) :
        (segs[i].k = "Key" /\ (segs[i].txt = <<>> \/ segs[i].txt[1] # SLASH))
            => \A j \in 1..Len(segs[i].txt) : segs[i].txt[j] # DOT

C4_AddressRoundTrip == (pc = "parsed" /\ NoDotInPlainKey) => parts = segs

\* C5: the direction and the reason of every remote edit are the same
\* whatever the local document is; only hasConflict changes with it.
NoConflictFlag(c) == [c EXCEPT !.hasConflict = FALSE]

AltLocals == {baseSpec} \cup {EditDoc(baseSpec, e) : e \in UserEdits(baseSpec, "local-edit")}

SameClassification(a, b) ==
    /\ {NoConflictFlag(c) : c \in Range(Routed(a))} = {NoConflictFlag(c) : c \in Range(Routed(b))}
    /\ Len(Routed(a)) = Len(Routed(b))
    /\ Len(a.blocked) = Len(b.blocked)
    /\ \A i \in 1..Len(a.blocked) : NoConflictFlag(a.blocked[i]) = NoConflictFlag(b.blocked[i])
    /\ Len(a.tests) = Len(b.tests)
    /\ \A i \in 1..Len(a.tests) : NoConflictFlag(a.tests[i]) = NoConflictFlag(b.tests[i])

C5_ConflictOrthogonality ==
    pc = "detected" =>
        \A L \in AltLocals :
            SameClassification(changes, detectChanges(baseSpec, L, remoteSpec, strictMode))

C5_Witness ==
    /\ pc = "detected"
    /\ changes.needsReview # <<>>
    /\ \E L \in AltLocals :
          LET other == detectChanges(baseSpec, L, remoteSpec, strictMode)
          IN  /\ other.needsReview = <<>>
              /\ other.safeToSync # <<>>
              /\ SameClassification(changes, other)

\* The keys remote has and baseline lacks in the object at an address both have
NewKeysAt(addr) ==
    IF NodeAt(baseSpec, addr).t = "obj" /\ NodeAt(remoteSpec, addr).t = "obj"
    THEN {k \in Range(NodeAt(remoteSpec, addr).ks) :
            /\ GetProp(NodeAt(baseSpec, addr), k).t = "undef"
            /\ IsObject(GetProp(NodeAt(remoteSpec, addr), k))}
    ELSE {}

InBucket(bucket, path) == \E i \in 1..Len(bucket) : bucket[i].path = path

OnlyBlocked(path) ==
    /\ InBucket(changes.blocked, path)
    /\ ~InBucket(changes.safeToSync, path)
    /\ ~InBucket(changes.needsReview, path)
    /\ ~InBucket(changes.tests, path)

HasDot(txt) == \E i \in 1..Len(txt) : txt[i] = DOT

StructuralRoots == {<<"openapi">>, <<"paths">>, <<"servers">>, <<"security">>}

Scalars == {"str", "num", "bool", "null"}

\* The address pathParts passes through a scalar of the document: some proper
\* prefix of it names a scalar
ThroughScalar(doc, pathParts) ==
    \E n \in 1..(Len(pathParts) - 1) :
        NodeAt(doc, [i \in 1..n |-> pathParts[i].txt]).t \in Scalars

\* The store after applying only the changes recorded in applied, in order
RECURSIVE Replay(_, _)
Replay(st, indices) ==
    IF indices = <<>> THEN st
    ELSE Replay(applyChange(st, allowed[Head(indices)], Head(indices) + 1).store, Tail(indices))

\* C7: a change whose address passes through a scalar of the working document
\* is recorded in skipped and not in applied, leaves the working document as
\* it was, and the loop goes on; the spec returned is the result of applying
\* only the changes recorded in applied.
C7_PartialFailureIsolation ==
    /\ [][(pc = "merging"
           /\ ThroughScalar(MergedSpec, parsePath(allowed[idx + 1].path)))
          => /\ applied' = applied
             /\ Len(skipped') = Len(skipped) + 1
             /\ skipped'[Len(skipped')].i = idx + 1
             /\ store' = store
             /\ idx' = idx + 1]_vars
    /\ [](pc = "merged" =>
            LET st == Replay(InitialStore(currentSpec, allowed), applied)
            IN  Resolve(st, st[1]) = MergedSpec)

\* C8: mergeSpecs leaves the values held by the changes as they were (and the
\* target: only its clone is written).
C8_InputsNotMutated == pc \in {"merging", "merged"} => ValuesIntact

\* C9: detectChanges puts every remote edit in exactly one bucket: the
\* bidirectional ones without conflict in safeToSync, those with conflict in
\* needsReview, the spec-to-collection ones in blocked, the collection-only
\* ones in tests, each bucket in the order of the diff, and nothing else.
ClassifiedAll == AsSeq([i \in 1..Len(RemoteDiff) |-> Classified(i)])

C9_RoutingPartition ==
    pc = "detected" =>
        /\ changes.safeToSync =
              SelectSeq(ClassifiedAll, LAMBDA c : c.direction = BIDIRECTIONAL /\ ~c.hasConflict)
        /\ changes.needsReview =
              SelectSeq(ClassifiedAll, LAMBDA c : c.direction = BIDIRECTIONAL /\ c.hasConflict)
        /\ changes.blocked =
              SelectSeq(ClassifiedAll, LAMBDA c : c.direction = SPEC_TO_COLLECTION)
        /\ changes.tests =
              SelectSeq(ClassifiedAll, LAMBDA c : c.direction = COLLECTION_ONLY)
        /\ Len(Routed(changes)) = Len(RemoteDiff)

C9_Witness ==
    /\ pc = "detected"
    /\ Len(RemoteDiff) = 2
    /\ Len(changes.needsReview) = 1
    /\ Len(changes.tests) = 1

\* C10: a remote edit has hasConflict set if and only if the local diff has
\* an edit with the same path array.
C10_ExactAddressConflict ==
    pc = "detected" =>
        \A i \in 1..Len(RemoteDiff) :
            /\ Classified(i) \in Range(Routed(changes))
            /\ Classified(i).hasConflict <=>
                  \E j \in 1..Len(LocalDiff) : LocalDiff[j].path = RemoteDiff[i].path

IsTree(n) == n.t \in {"obj", "arr"}

MalformedRoot == ~IsTree(baseSpec) \/ ~IsTree(currentSpec) \/ ~IsTree(remoteSpec)

\* The changes object holds one edit, at the root address
WholeDocumentEdit ==
    /\ Len(Routed(changes)) = 1
    /\ Routed(changes)[1].path = <<>>

\* C11: when a root is not a tree (a scalar or null), detectChanges fails; in
\* particular it never returns a changes object holding a single edit of the
\* whole document.
C11_MalformedRootIsError == (pc = "detected" /\ MalformedRoot) => ~WholeDocumentEdit

CONFLICT_SKIPPED == "Conflict - spec wins"

\* The step skips allowed[i] without calling applyChange
SkippedUnattempted(i) ==
    /\ store' = store
    /\ applied' = applied
    /\ skipped' = Append(skipped, [i |-> i, reason |-> CONFLICT_SKIPPED])

\* The step calls applyChange on allowed[i] and records what became of it
Attempted(i) ==
    LET res == applyChange(store, allowed[i], i + 1)
    IN  /\ store' = res.store
        /\ applied' = IF res.ok THEN Append(applied, i) ELSE applied
        /\ skipped' = IF res.ok THEN skipped
                      ELSE Append(skipped, [i |-> i, reason |-> res.error])
        /\ res.error # CONFLICT_SKIPPED

\* C12: mergeSpecs skips a change without attempting it, with the conflict
\* reason and the document untouched, exactly when the change has hasConflict
\* set and conflictStrategy is 'spec-wins', which is also the strategy of a
\* SpecMerge built without one; every other change is attempted, whatever the
\* strategy.
C12_ConflictStrategySwitch ==
    /\ conflictStrategyOption(ABSENT) = SPEC_WINS
    /\ [][pc = "merging" =>
            IF allowed[idx + 1].hasConflict /\ conflictStrategy = SPEC_WINS
            THEN SkippedUnattempted(idx + 1)
            ELSE Attempted(idx + 1)]_vars

C12_Witness ==
    /\ pc = "merged"
    /\ conflictStrategy = "interactive"
    /\ Len(allowed) = 2
    /\ allowed[1].hasConflict
    /\ ~allowed[2].hasConflict
    /\ applied = <<1, 2>>
    /\ NodeAt(MergedSpec, << <<"info">>, <<"description">> >>) = Str("remote-doc")

HttpMethods == {<<"get">>, <<"post">>}

\* The path array names a structural member: a schema or a security scheme,
\* a property of a schema, an endpoint or an operation of an endpoint
StructuralMember(path) ==
    LET key(i) == path[i].txt IN
    \/ /\ Len(path) = 3
       /\ key(1) = <<"components">>
       /\ key(2) \in {<<"schemas">>, <<"securitySchemes">>}
    \/ /\ Len(path) = 5
       /\ key(1) = <<"components">>
       /\ key(2) = <<"schemas">>
       /\ key(4) = <<"properties">>
    \/ /\ Len(path) = 2
       /\ key(1) = <<"paths">>
    \/ /\ Len(path) = 3
       /\ key(1) = <<"paths">>
       /\ key(3) \in HttpMethods

\* C13: every remote edit that adds, removes or changes a schema, a schema
\* property, an endpoint or an operation is blocked and in no other bucket,
\* whatever the name of the property (description, example, ...).
C13_StructureNeverFlowsBack ==
    pc = "detected" =>
        \A i \in 1..Len(diff) :
            StructuralMember(diff[i].path) => OnlyBlocked(JoinPath(diff[i].path))

IsPrefix(a, b) == Len(a) <= Len(b) /\ SubSeq(b, 1, Len(a)) = a

\* The address a is an edit address e, above it or beneath it
Related(a, e) == IsPrefix(a, e) \/ IsPrefix(e, a)

\* The key sequence of a deepDiff path array
PathKeys(path) == AsSeq([i \in 1..Len(path) |-> path[i].txt])

\* The tree locations of the remote edits that mergeSpecs recorded in applied
AppliedAddrs ==
    {PathKeys(RemoteDiff[j].path) :
        j \in {k \in 1..Len(RemoteDiff) :
                 \E i \in Range(applied) : allowed[i].path = JoinPath(RemoteDiff[k].path)}}

\* No key of the document contains a '.', endpoint paths ('/...') apart
PlainKeys(doc) ==
    \A a \in AllAddrs(doc) : \A i \in 1..Len(a) : a[i][1] = SLASH \/ ~HasDot(a[i])

\* C14: every location of the target or of the returned spec that is not the
\* address of an applied edit, nor above nor beneath one, is present on both
\* sides or on neither, with the same value.  Stated for the documents whose
\* addresses join without ambiguity (no key but an endpoint path has a '.').
C14_UnrelatedContentPreserved ==
    (pc = "merged" /\ PlainKeys(baseSpec) /\ PlainKeys(remoteSpec)) =>
        \A a \in AllAddrs(currentSpec) \cup AllAddrs(MergedSpec) :
            (\A e \in AppliedAddrs : ~Related(a, e))
                => NodeAt(currentSpec, a) = NodeAt(MergedSpec, a)

Diffed == pc \in {"diffed", "detected"}

Absent(v) == v.t = "undef"

\* C15: an edit of deepDiff has kind 'N' exactly when its lhs is absent, kind
\* 'D' exactly when its rhs is absent, and kind 'E' otherwise; no edit has
\* both sides absent.
C15_EditKind ==
    Diffed =>
        \A i \in 1..Len(diff) :
            /\ diff[i].kind \in {"N", "D", "E"}
            /\ diff[i].kind = "N" <=> Absent(diff[i].lhs)
            /\ diff[i].kind = "D" <=> Absent(diff[i].rhs)
            /\ ~(Absent(diff[i].lhs) /\ Absent(diff[i].rhs))

C15_Witness ==
    /\ pc = "diffed"
    /\ Len(diff) = 3
    /\ {diff[i].kind : i \in 1..3} = {"N", "D", "E"}

\* The rule groups of classifyChange that an address matches
StructuralGroup(path) == MatchesAny(path, SPEC_SOURCE_OF_TRUTH)

EnrichmentGroup(path) == MatchesAny(path, BIDIRECTIONAL_FIELDS)

ArtifactGroup(path) == IncludesArtifact(path)

\* C16: classifyChange returns the outcome of the first group that matches,
\* in the order structural patterns, enrichment patterns, artifact words,
\* default; the default is spec-to-collection in strict mode and
\* bidirectional otherwise.
C16_FirstRuleWins ==
    pc = "classified" =>
        LET rule == classified.reason[1]
            direction == classified.direction
        IN  CASE StructuralGroup(pathStr) ->
                    \/ rule = "Structural element: " /\ direction = SPEC_TO_COLLECTION
                    \/ rule = "Enrichment within structure: " /\ direction = BIDIRECTIONAL
              [] ~StructuralGroup(pathStr) /\ EnrichmentGroup(pathStr) ->
                    rule = "Enrichment field: " /\ direction = BIDIRECTIONAL
              [] ~StructuralGroup(pathStr) /\ ~EnrichmentGroup(pathStr)
                    /\ ArtifactGroup(pathStr) ->
                    rule = "Test or script content" /\ direction = COLLECTION_ONLY
              [] OTHER ->
                    IF strictMode
                    THEN /\ rule = "Unclassified - defaulting to spec-only (strict mode)"
                         /\ direction = SPEC_TO_COLLECTION
                    ELSE /\ rule = "Unclassified - allowing in non-strict mode"
                         /\ direction = BIDIRECTIONAL

C16_Witness ==
    /\ pc = "classified"
    /\ ~StructuralGroup(pathStr)
    /\ EnrichmentGroup(pathStr)
    /\ ArtifactGroup(pathStr)
    /\ classified.direction = BIDIRECTIONAL

\* The '.'-separated segments of the address classified
AddressSegments == SplitDots(pathStr)

DocumentationNames ==
    {<<"description">>, <<"summary">>, <<"example">>, <<"examples">>, <<"externalDocs">>}

\* C17 as claimed: an address under a structural pattern is bidirectional
\* exactly when its final segment is description, summary, example, examples
\* or externalDocs, and spec-to-collection otherwise.
C17_FinalSegmentOverride ==
    (pc = "classified" /\ StructuralGroup(pathStr)) =>
        IF Last(AddressSegments) \in DocumentationNames
        THEN classified.direction = BIDIRECTIONAL
        ELSE classified.direction = SPEC_TO_COLLECTION

\* C17 as amended: an address under a structural pattern is bidirectional
\* exactly when its final segment is description or summary, or one of its
\* segments after the first is example, examples or externalDocs (so every
\* address beneath an example, such as ...example.0.title, is bidirectional);
\* it is spec-to-collection in every other case, in particular when
\* description or summary occurs only as a non-final segment.
C17_EnrichmentOverride ==
    (pc = "classified" /\ StructuralGroup(pathStr)) =>
        LET n == Len(AddressSegments)
            enrichment ==
                \/ n >= 2 /\ AddressSegments[n] \in {<<"description">>, <<"summary">>}
                \/ \E i \in 2..n :
                      AddressSegments[i] \in {<<"example">>, <<"examples">>, <<"externalDocs">>}
        IN  IF enrichment
            THEN classified.direction = BIDIRECTIONAL
            ELSE classified.direction = SPEC_TO_COLLECTION

C17_Witness ==
    /\ pc = "classified"
    /\ pathStr = <<"paths", DOT, SLASH, "a", DOT, "get", DOT, "example", DOT, "0", DOT, "title">>
    /\ StructuralGroup(pathStr)
    /\ classified.direction = BIDIRECTIONAL

\* The deepDiff path of the value at address a of doc: an index for an
\* element of an array, a key for a member of an object
RECURSIVE AddrPath(_, _)
AddrPath(doc, a) ==
    IF a = <<>> THEN <<>>
    ELSE Append(AddrPath(doc, Front(a)),
                IF NodeAt(doc, Front(a)).t = "arr"
                THEN IndexSeg(TextNum(Last(a)))
                ELSE KeySeg(Last(a)))

\* C18: when compare is base with one key of an object renamed (same value),
\* deepDiff returns exactly two edits, a 'D' at the address of the old key and
\* an 'N' at the address of the new key, each carrying the value, and nothing
\* else.
C18_RenameDecomposition ==
    Diffed =>
        \A a \in RenameAddrs(baseSpec) :
            remoteSpec = RenameAt(baseSpec, a) =>
                LET old == AddrPath(baseSpec, a)
                    new == Append(Front(old), KeySeg(<<"renamed">>))
                    value == NodeAt(baseSpec, a)
                IN  /\ Len(diff) = 2
                    /\ \E i, j \in 1..2 :
                          /\ i # j
                          /\ diff[i].kind = "D" /\ diff[i].path = old
                          /\ diff[i].lhs = value /\ Absent(diff[i].rhs)
                          /\ diff[j].kind = "N" /\ diff[j].path = new
                          /\ diff[j].rhs = value /\ Absent(diff[j].lhs)

\* A nested key that holds a container is renamed
C18_Witness ==
    /\ pc = "diffed"
    /\ \E a \in RenameAddrs(baseSpec) :
          /\ Len(a) >= 2
          /\ IsObject(NodeAt(baseSpec, a))
          /\ remoteSpec = RenameAt(baseSpec, a)
    /\ Len(diff) = 2

\* deepDiff(base, compare) reaches the address a: every container above a is
\* an object on both sides, or an array on both sides
RECURSIVE Visits(_, _, _)
Visits(base, compare, a) ==
    \/ a = <<>>
    \/ /\ IsObject(base)
       /\ IsObject(compare)
       /\ (base.t = "arr") <=> (compare.t = "arr")
       /\ Visits(GetProp(base, Head(a)), GetProp(compare, Head(a)), Tail(a))

VisitedAddrs ==
    {a \in {<<>>} \cup AllAddrs(baseSpec) \cup AllAddrs(remoteSpec) :
        Visits(baseSpec, remoteSpec, a)}

\* The edits of diff at the path p or beneath it
EditsUnder(p) == SelectSeq(diff, LAMBDA e : IsPrefix(p, e.path))

\* The edits of diff are exactly one edit, of the given kind, at the path p
OneEditAt(p, kind) ==
    /\ Len(EditsUnder(p)) = 1
    /\ EditsUnder(p)[1].path = p
    /\ EditsUnder(p)[1].kind = kind

\* C19, one side an array: exactly one edit at the container's own address and
\* none beneath it.
ReplacedWhole(a) ==
    LET b == NodeAt(baseSpec, a)
        c == NodeAt(remoteSpec, a)
        p == AddrPath(baseSpec, a)
    IN  ((b.t = "arr") # (c.t = "arr")) =>
            /\ Len(EditsUnder(p)) = 1
            /\ EditsUnder(p)[1].path = p
            /\ EditsUnder(p)[1].lhs = b
            /\ EditsUnder(p)[1].rhs = c

\* C19, both sides arrays: the indices 0 .. max(len) - 1 are compared one by
\* one, an index only compare has yields one 'N' there, an index only base has
\* yields one 'D' there, an index both have yields nothing for equal scalars
\* and one 'E' for different scalars; no edit is at an index beyond.
ComparedByPosition(a) ==
    LET b == NodeAt(baseSpec, a)
        c == NodeAt(remoteSpec, a)
        p == AddrPath(baseSpec, a)
        n == Max(Len(b.el), Len(c.el))
    IN  (b.t = "arr" /\ c.t = "arr") =>
            /\ \A i \in 0..(n - 1) :
                  LET pi == Append(p, IndexSeg(i)) IN
                  IF i >= Len(b.el)
                  THEN OneEditAt(pi, "N") /\ EditsUnder(pi)[1].rhs = c.el[i + 1]
                  ELSE IF i >= Len(c.el)
                  THEN OneEditAt(pi, "D") /\ EditsUnder(pi)[1].lhs = b.el[i + 1]
                  ELSE IF IsObject(b.el[i + 1]) \/ IsObject(c.el[i + 1])
                  THEN TRUE
                  ELSE IF b.el[i + 1] = c.el[i + 1]
                  THEN EditsUnder(pi) = <<>>
                  ELSE OneEditAt(pi, "E")
            /\ \A k \in 1..Len(EditsUnder(p)) :
                  LET e == EditsUnder(p)[k] IN
                  /\ Len(e.path) > Len(p)
                  /\ e.path[Len(p) + 1] \in {IndexSeg(i) : i \in 0..(n - 1)}

\* C19: sequence diffing at every address deepDiff reaches.
C19_SequenceDiffing ==
    Diffed => \A a \in VisitedAddrs : ReplacedWhole(a) /\ ComparedByPosition(a)

\* Two arrays of different lengths beneath the root are compared
C19_Witness ==
    /\ pc = "diffed"
    /\ \E a \in VisitedAddrs :
          /\ a # <<>>
          /\ NodeAt(baseSpec, a).t = "arr"
          /\ NodeAt(remoteSpec, a).t = "arr"
          /\ Len(NodeAt(baseSpec, a).el) # Len(NodeAt(remoteSpec, a).el)
    /\ diff # <<>>

\* C20: when the roots are trees (each an object or an array), every edit of
\* deepDiff, and every change record of detectChanges, has an address of at
\* least one segment.
C20_NoZeroSegmentAddress ==
    /\ (Diffed /\ IsTree(baseSpec) /\ IsTree(remoteSpec)) =>
           \A i \in 1..Len(diff) : Len(diff[i].path) >= 1
    /\ (pc = "detected" /\ IsTree(baseSpec) /\ IsTree(remoteSpec) /\ IsTree(currentSpec)) =>
           \A i \in 1..Len(Routed(changes)) : Routed(changes)[i].path # <<>>

\* The pattern segment matches the one address segment
SegmentMatches(patternPart, seg) ==
    \/ patternPart = <<STAR>>
    \/ /\ \E i \in 1..Len(patternPart) : patternPart[i] = STAR
       /\ GlobMatch(patternPart, seg.txt)
    \/ patternPart = seg.txt

\* Every pattern segment consumes one address segment, left to right
MatchesPerSegment(address, patternParts) ==
    /\ Len(patternParts) <= Len(address)
    /\ \A i \in 1..Len(patternParts) : SegmentMatches(patternParts[i], address[i])

\* C21: pathMatchesPattern matches exactly when each pattern segment, in
\* order, consumes one whole segment of the address (a key such as
\* /v1.0/users is one segment); trailing address segments are allowed and a
\* shorter address never matches.
C21_WildcardPerSegment ==
    pc = "matched" => (matched <=> MatchesPerSegment(segs, SplitDots(matchPattern)))

\* The value at an address of a document tree; absent is Undef
RECURSIVE TreeAt(_, _)
TreeAt(doc, keys) ==
    IF keys = <<>> THEN doc
    ELSE IF ~IsObject(doc) THEN Undef
    ELSE TreeAt(GetProp(doc, Head(keys)), Tail(keys))

\* No key of the address has a '.', and a '/' is only the first character of
\* a key: the addresses that parsePath takes apart into their own segments
PlainAddress(address) ==
    \A i \in 1..Len(address) :
        \A j \in 1..Len(address[i].txt) :
            /\ address[i].txt[j] # DOT
            /\ address[i].txt[j] = SLASH => j = 1

\* The one edit was applied and mergeSpecs has returned
AppliedEdit == pc = "merged" /\ applied = <<1>>

\* C22: walking the address of an applied edit, a container is created only
\* where the working document has none, as an array when the next segment of
\* the address is an Index and as an object when it is a Key, also a Key of
\* digits such as '200'.  (Stated for addresses whose keys parsePath keeps
\* whole.)
C22_ContainerCreation ==
    (AppliedEdit /\ PlainAddress(segs)) =>
        \A i \in 1..(Len(segs) - 1) :
            LET a == PathKeys(SubSeq(segs, 1, i))
                before == TreeAt(currentSpec, a)
                after == TreeAt(MergedSpec, a)
            IN  IF before.t = "undef"
                THEN after.t = IF segs[i + 1].k = "Index" THEN "arr" ELSE "obj"
                ELSE after.t = before.t

\* C23: once an edit is recorded in applied, the returned document has the
\* new value at the address for an 'N' or 'E', and no entry there for a 'D':
\* a deleted key is no key of its object any more, and a deleted index is
\* taken out of its array, which is one element shorter and keeps no
\* placeholder.  (Stated for addresses whose keys parsePath keeps whole.)
C23_FinalSegmentEffect ==
    (AppliedEdit /\ PlainAddress(segs)) =>
        LET a == PathKeys(segs)
            before == TreeAt(currentSpec, Front(a))
            after == TreeAt(MergedSpec, Front(a))
        IN  IF diff[1].kind # "D"
            THEN TreeAt(MergedSpec, a) = diff[1].rhs
            ELSE /\ TreeAt(MergedSpec, a).t = "undef"
                 /\ after.t = "obj" => ~HasKey(after, Last(a))
                 /\ (before.t = "arr" /\ TreeAt(currentSpec, a).t # "undef") =>
                        /\ Len(after.el) = Len(before.el) - 1
                        /\ \A j \in 1..Len(after.el) : after.el[j].t # "undef"

\* The address p is strictly above the address q
StrictlyAbove(p, q) == Len(p) < Len(q) /\ SubSeq(q, 1, Len(p)) = p

\* The remote edit e lies strictly beneath a local edit, and no local edit is
\* at the address of e
BeneathLocalEdit(e) ==
    /\ \E i \in 1..Len(LocalDiff) : StrictlyAbove(LocalDiff[i].path, e.path)
    /\ \A i \in 1..Len(LocalDiff) : LocalDiff[i].path # e.path

RecordsOf(list, e) == SelectSeq(list, LAMBDA c : c.path = JoinPath(e.path))

\* C24: a remote edit strictly beneath a container that local edited, with no
\* local edit at its own address, gets hasConflict = FALSE; when it is
\* bidirectional it is in safeToSync and not in needsReview.
C24_AncestorEditNoConflict ==
    pc = "detected" =>
        \A i \in 1..Len(RemoteDiff) :
            LET e == RemoteDiff[i] IN
            BeneathLocalEdit(e) =>
                /\ RecordsOf(Routed(changes), e) # <<>>
                /\ \A k \in 1..Len(RecordsOf(Routed(changes), e)) :
                      ~RecordsOf(Routed(changes), e)[k].hasConflict
                /\ classifyChange(JoinPath(e.path), strictMode).direction = BIDIRECTIONAL =>
                      /\ RecordsOf(changes.safeToSync, e) # <<>>
                      /\ RecordsOf(changes.needsReview, e) = <<>>

\* A key with a '/' after its first character and without a '.', such as the
\* media type application/json
InnerSlashKey(seg) ==
    /\ seg.k = "Key"
    /\ \E j \in 2..Len(seg.txt) : seg.txt[j] = SLASH
    /\ \A j \in 1..Len(seg.txt) : seg.txt[j] # DOT

\* C25: parsePath returns a key with an inner '/' as one segment, so the edit
\* applied at ...content.application/json.example reaches the application/json
\* entry the document has and adds no key under content.
C25_SlashKeyOneSegment ==
    pc \in {"merging", "merged"} =>
        \A i \in 1..Len(segs) :
            InnerSlashKey(segs[i]) =>
                LET content == PathKeys(SubSeq(segs, 1, i - 1)) IN
                /\ \E j \in 1..Len(parsePath(pathStr)) :
                      parsePath(pathStr)[j].txt = segs[i].txt
                /\ (AppliedEdit /\ TreeAt(currentSpec, Append(content, segs[i].txt)).t # "undef") =>
                      TreeAt(MergedSpec, content).ks = TreeAt(currentSpec, content).ks

\* C26: a 'D' edit adds nothing: every address of the returned document is an
\* address of the target, and when the address of the edit, or a container
\* above it, is absent from the target the returned document is the target.
\* (Stated for addresses whose keys parsePath keeps whole.)
C26_DeleteAddsNothing ==
    (pc = "merged" /\ diff[1].kind = "D" /\ PlainAddress(segs)) =>
        /\ AllAddrs(MergedSpec) \subseteq AllAddrs(currentSpec)
        /\ TreeAt(currentSpec, PathKeys(segs)).t = "undef" => MergedSpec = currentSpec

\* The keys of the object at an address of a document (none when there is no
\* object there)
KeysAt(doc, a) ==
    IF TreeAt(doc, a).t = "obj" THEN Range(TreeAt(doc, a).ks) ELSE {}

\* The path keys, the operation keys of every path and the schema names
Structure(doc) ==
    [paths |-> KeysAt(doc, << <<"paths">> >>),
     operations |-> UNION {{<<p, o>> : o \in KeysAt(doc, << <<"paths">>, p >>)}
                           : p \in KeysAt(doc, << <<"paths">> >>)},
     schemas |-> KeysAt(doc, << <<"components">>, <<"schemas">> >>)]

\* C27: the document mergeSpecs returns for the safeToSync changes has the
\* path keys, the operation keys and the schema names of local, also when
\* local deleted a path or an operation whose description remote changed.
\* (Stated for documents whose keys parsePath keeps whole.)
C27_StructureNotReintroduced ==
    (pc = "merged" /\ baseSpec = BaseScenario
        /\ PlainKeys(currentSpec) /\ PlainKeys(remoteSpec)) =>
        Structure(MergedSpec) = Structure(currentSpec)

WritesOf(kinds) == {i \in 1..Len(files) : files[i].file \in kinds}

\* C29: the baseline is written only in a run that returns 'synced', after
\* the merged spec was written (and after the backup, when the spec file is
\* overwritten and a backup is made), and it holds the merged spec; a run
\* that returns 'dry-run' or 'no-changes' has written no file.
C29_BaselineAfterMerge ==
    /\ \A i \in WritesOf({"baseline"}) :
          /\ pc = "returned" /\ status = "synced"
          /\ i = Len(files)
          /\ files[i].content = JsonClone(MergedSpec)
          /\ \E j \in WritesOf({"spec", "output"}) :
                /\ j < i
                /\ files[j].content = files[i].content
                /\ (options.inPlace /\ ~options.noBackup) =>
                      \E k \in WritesOf({"backup"}) : k < j
    /\ status = "synced" => WritesOf({"baseline"}) # {}
    /\ status \in {"dry-run", "no-changes"} => files = <<>>

\* A run that overwrote the spec: backup, spec, baseline, in this order
C29_Witness ==
    /\ pc = "returned"
    /\ status = "synced"
    /\ Len(files) = 3
    /\ files[1].file = "backup"
    /\ files[2].file = "spec"
    /\ files[3].file = "baseline"
    /\ files[3].content # currentSpec

\* The response that raised the error had a 4xx status; 429, which carries
\* Retry-After and is retried on purpose, is left aside
ClientError(error) == error.status \in 400..499 /\ error.status # 429

\* C30: a failure with a 4xx status (401, 404 or another 4xx) is rethrown at
\* once, no retry follows it; only other failures are retried, and request is
\* called at most maxRetries + 1 times.
C30_NoRetryOnClientError ==
    /\ pc = "sleeping" => ~ClientError(lastError)
    /\ attempt <= maxRetries
    /\ requests <= maxRetries + 1
    /\ (pc = "thrown" /\ ~ClientError(lastError)) => requests = maxRetries + 1

====
